---- MODULE Spec2Model ----
(***************************************************************************)
(* Reaction-Predictor: the reagent scoring and analytics engine.           *)
(*                                                                         *)
(* Numbers are fixed point.  A compatibility score is an integer number of *)
(* thousandths (0.6 is 600), a frequency weight or penalty factor an       *)
(* integer number of hundredths (0.45 is 45), a support fraction pct an    *)
(* integer number of ten-thousandths (0.25 is 2500; the aggregator rounds  *)
(* pct to 4 decimals).  Names are strings; SubSeq, Len and \o read them    *)
(* character by character.                                                 *)
(***************************************************************************)
EXTENDS Integers, Sequences, FiniteSets, TLC

VARIABLES
    \* prior blending (enhanced_recommendation_engine.py)
    analytics_cfg,  \* self._analytics_cfg
    kind,           \* which reagent class the list holds
    recs,           \* the recommendation list handed to _apply_freq_priors_*
    summary,        \* the analytics summary (latest.json), its top list for kind
    blended,        \* the list _apply_freq_priors_* returned
    pc              \* "ready" before the call, "done" after it

blendVars == <<analytics_cfg, kind, recs, summary, blended, pc>>

VARIABLES
    \* compatibility scoring (reagents/ligand.py, solvent.py, base.py)
    repo,           \* the rows of the reagent table the recommender reads
    request,        \* reagent class and the arguments of recommend_*_for_reaction
    scalers,        \* TRUE when MinMaxScaler and cdist could be imported
    result,         \* the list the recommender returned, or "raised"
    spc             \* "ready" before the call, "done" after it

scoreVars == <<repo, request, scalers, result, spc>>

VARIABLES
    \* repository loading (reagents/base.py, reagents/solvent.py)
    source,         \* what is on disk: a collection file, a directory, nothing
    lkind,          \* which loader runs: "bases" or "solvents"
    table,          \* the rows of the DataFrame the loader returned
    origin,         \* where they came from: "json", "builtin", "empty"
    lpc             \* "ready" before the call, "done" after it

loadVars == <<source, lkind, table, origin, lpc>>

VARIABLES
    \* the aggregator's export run (analytics/aggregate.py)
    dataset,        \* the Ullmann dataset file: "missing" or its rows
    clock,          \* datetime.utcnow(), in ticks
    versions,       \* version directories of the output directory, by timestamp
    latest,         \* latest.json
    run,            \* each runner's position and locals in run_and_export_ullmann
    overlapped      \* history: TRUE once a run started while another was in progress

exportVars == <<dataset, clock, versions, latest, run, overlapped>>

VARIABLES
    \* the combination ranker (enhanced_recommendation_engine.py)
    ligands,        \* the ligand recommendations handed to _create_combined_conditions
    solvents,       \* the solvent recommendations handed to it
    ctype,          \* its reaction_type argument
    combined,       \* the list it returned
    cpc             \* "ready" before the call, "done" after it

combineVars == <<ligands, solvents, ctype, combined, cpc>>

VARIABLES
    \* the normalizer (analytics/normalization.py)
    ntoken,         \* the name handed to map_base, map_solvent, map_ligand or map_metal
    nfunc,          \* which of them is called
    nresult,        \* the string it returned
    npc             \* "ready" before the call, "done" after it

normalizeVars == <<ntoken, nfunc, nresult, npc>>

VARIABLES
    \* the aggregator (analytics/aggregate.py: aggregate_ullmann)
    input_rows,     \* the rows handed to aggregate_ullmann, the same for every call
    utcnow,         \* datetime.utcnow()
    summaries,      \* the summaries the calls returned, in order
    winsorized      \* temps_w, times_w, yields_w of each call

aggregateVars == <<input_rows, utcnow, summaries, winsorized>>

VARIABLES
    \* the engine (enhanced_recommendation_engine.py: get_recommendations)
    available,      \* ENHANCED_REAGENTS_AVAILABLE, set when the module is imported
    base_engine,    \* self.base_engine: "absent" or "present"
    ecall,          \* the arguments of the last call and what its callees did
    eresult,        \* the dictionary the last call returned
    epc             \* "ready", "returned" or "raised"
engineVars == <<available, base_engine, ecall, eresult, epc>>

VARIABLES
    \* the export builder (prediction_export.py: build_export_payload)
    xresult,        \* the result handed to build_export_payload
    xrelated,       \* its related_reactions argument
    xfiles,         \* the data files it reads
    payload,        \* the payload it returned
    xpc             \* "ready" or "returned"
payloadVars == <<xresult, xrelated, xfiles, payload, xpc>>

VARIABLES
    \* canonicalize (analytics/normalization.py)
    ctoken,         \* a token, or None
    cvariant,       \* the same token written another way
    cdiffer,        \* how the two differ: "case", "blank", "punctuation", "diacritic", "micro", "same"
    cresult,        \* canonicalize(ctoken)
    cvresult,       \* canonicalize(cvariant)
    cagain,         \* canonicalize(cresult)
    kpc             \* the calls made so far: 0, 1, 2 or 3
canonVars == <<ctoken, cvariant, cdiffer, cresult, cvresult, cagain, kpc>>

VARIABLES
    \* parse_numeric (analytics/normalization.py)
    ptext,          \* the text handed to parse_numeric, or None
    pwritten,       \* how the text was written: <<number, separator, unit>>, or <<>> for free text
    presult,        \* the pair (value, unit) it returned, the value in thousandths
    ppc             \* "ready" before the call, "done" after it
parseVars == <<ptext, pwritten, presult, ppc>>

VARIABLES
    \* the evidence harvest (enhanced_recommendation_engine.py: _harvest_evidence_bases)
    hdataset,       \* the rows of data/reaction_dataset, or None when the directory is missing
    htype,          \* the reaction type asked for
    hevidence,      \* the frequency map it returned
    hpc             \* "ready" before the call, "done" after it
harvestVars == <<hdataset, htype, hevidence, hpc>>

\* the components modelled after the export run
laterVars == <<combineVars, normalizeVars, aggregateVars, engineVars, payloadVars, canonVars, parseVars, harvestVars>>

vars == <<blendVars, scoreVars, loadVars, exportVars, laterVars>>

(***************************************************************************)
(* Bounds of the model.                                                    *)
(***************************************************************************)
MaxRecs == 2
MaxTop == 2
MaxRepo == 3
MaxTopN == 3
MaxEntries == 2
MaxClock == 3
MaxPicks == 4
MaxRows == 23
MaxRuns == 2
MaxConds == 4

(***************************************************************************)
(* Strings.                                                                *)
(***************************************************************************)
CharAt(s, i) == SubSeq(s, i, i)

\* str.lower() of one character
LowerMap ==
    ("A" :> "a") @@ ("B" :> "b") @@ ("C" :> "c") @@ ("D" :> "d") @@ ("E" :> "e") @@ ("F" :> "f") @@
    ("G" :> "g") @@ ("H" :> "h") @@ ("I" :> "i") @@ ("J" :> "j") @@ ("K" :> "k") @@ ("L" :> "l") @@
    ("M" :> "m") @@ ("N" :> "n") @@ ("O" :> "o") @@ ("P" :> "p") @@ ("Q" :> "q") @@ ("R" :> "r") @@
    ("S" :> "s") @@ ("T" :> "t") @@ ("U" :> "u") @@ ("V" :> "v") @@ ("W" :> "w") @@ ("X" :> "x") @@
    ("Y" :> "y") @@ ("Z" :> "z")

LowerChar(c) == IF c \in DOMAIN LowerMap THEN LowerMap[c] ELSE c

RECURSIVE Lower(_)
Lower(s) ==
    IF s = "" THEN ""
    ELSE LowerChar(CharAt(s, 1)) \o Lower(SubSeq(s, 2, Len(s)))

\* str.strip(): leading and trailing blanks removed
RECURSIVE LStrip(_)
LStrip(s) ==
    IF s # "" /\ CharAt(s, 1) = " " THEN LStrip(SubSeq(s, 2, Len(s))) ELSE s

RECURSIVE RStrip(_)
RStrip(s) ==
    IF s # "" /\ CharAt(s, Len(s)) = " " THEN RStrip(SubSeq(s, 1, Len(s) - 1)) ELSE s

Strip(s) == RStrip(LStrip(s))

\* str.replace(' ', '')
RECURSIVE RemoveSpaces(_)
RemoveSpaces(s) ==
    IF s = "" THEN ""
    ELSE (IF CharAt(s, 1) = " " THEN "" ELSE CharAt(s, 1))
             \o RemoveSpaces(SubSeq(s, 2, Len(s)))

\* t in s
Contains(s, t) ==
    \E i \in 0..(Len(s) - Len(t)) : SubSeq(s, i + 1, i + Len(t)) = t

\* str.rfind(c), 1-based; 0 when c does not occur
RFind(s, c) ==
    IF \E i \in 1..Len(s) : CharAt(s, i) = c
    THEN CHOOSE i \in 1..Len(s) :
             /\ CharAt(s, i) = c
             /\ \A j \in (i + 1)..Len(s) : CharAt(s, j) # c
    ELSE 0

(***************************************************************************)
(* Arithmetic.                                                             *)
(***************************************************************************)
Min(a, b) == IF a < b THEN a ELSE b
Max(a, b) == IF a > b THEN a ELSE b
Abs(a) == IF a < 0 THEN 0 - a ELSE a

\* round(n/d, 3) of a value whose thousandths are n/d (d > 0): the nearest
\* integer, a half going to the even neighbour as Python's round does
RoundDiv(n, d) ==
    LET q == n \div d
        r == n % d
    IN  IF 2 * r < d THEN q
        ELSE IF 2 * r > d THEN q + 1
        ELSE IF q % 2 = 0 THEN q ELSE q + 1

(***************************************************************************)
(* Python dicts as sequences of <<key, value>> in insertion order.         *)
(***************************************************************************)
DictHas(d, k) == \E i \in 1..Len(d) : d[i][1] = k

DictGet(d, k, default) ==
    IF DictHas(d, k) THEN d[CHOOSE i \in 1..Len(d) : d[i][1] = k][2] ELSE default

DictPut(d, k, v) ==
    IF DictHas(d, k)
    THEN [i \in 1..Len(d) |-> IF d[i][1] = k THEN <<k, v>> ELSE d[i]]
    ELSE Append(d, <<k, v>>)

\* list.sort(key=..., reverse=True): descending by key, equal keys keeping
\* their order (Python's sort is stable, also when reversed)
SortDesc(items, keys) ==
    LET n == Len(items)
        pos(i) == 1 + Cardinality({j \in 1..n :
                        keys[j] > keys[i] \/ (keys[j] = keys[i] /\ j < i)})
    IN  [p \in 1..n |-> items[CHOOSE i \in 1..n : pos(i) = p]]

(***************************************************************************)
(* Prior blending: EnhancedRecommendationEngine._apply_freq_priors_*       *)
(***************************************************************************)
Kinds == {"solvents", "bases", "ligands"}

DefaultCfg ==
    [ enabled                 |-> TRUE,
      w_freq                  |-> 30,
      w_freq_solvents         |-> 45,
      w_freq_bases            |-> 40,
      w_freq_ligands          |-> 35,
      soft_penalty            |-> TRUE,
      penalty_factor          |-> 85,
      penalty_factor_solvents |-> 85,
      penalty_factor_bases    |-> 85,
      penalty_factor_ligands  |-> 88,
      min_support_pct         |-> 100 ]

\* _extract_priors: name -> pct of summary.top[kind], entries without a name
\* or with pct <= 0 left out; None (here the empty dict) when nothing is left
RECURSIVE ExtractPriorsFrom(_, _)
ExtractPriorsFrom(top, pri) ==
    IF top = <<>> THEN pri
    ELSE LET item == Head(top)
             nm == Strip(item.name)
         IN  IF nm = "" \/ item.pct <= 0
             THEN ExtractPriorsFrom(Tail(top), pri)
             ELSE ExtractPriorsFrom(Tail(top), DictPut(pri, nm, item.pct))

ExtractPriors(summ, k) == ExtractPriorsFrom(summ.top[k], <<>>)

\* _apply_freq_priors_solvents._canon
CanonSolvent(name) ==
    LET s_low == RemoveSpaces(Lower(Strip(name)))
    IN  IF s_low \in {"dmso", "dms o", "dimethylsulfoxide"} THEN "dms o" ELSE s_low

\* _apply_freq_priors_bases._canon_base
CanonBase(nm) ==
    LET s == Strip(nm)
        inner == Strip(SubSeq(s, RFind(s, "(") + 1, RFind(s, ")") - 1))
        t == IF Contains(s, "(") /\ Contains(s, ")") /\ inner # "" THEN inner ELSE s
    IN  RemoveSpaces(Lower(t))

\* _apply_freq_priors_ligands._canon
CanonLigand(nm) == Lower(Strip(nm))

Canon(k, name) ==
    CASE k = "solvents" -> CanonSolvent(name)
      [] k = "bases"    -> CanonBase(name)
      [] k = "ligands"  -> CanonLigand(name)

\* the names the model draws its inputs from
RecNames(k) ==
    CASE k = "solvents" -> {"Toluene", "DMSO", "Dimethylformamide"}
      [] k = "bases"    -> {"Potassium carbonate (K2CO3)", "Cs2CO3", "Triethylamine"}
      [] k = "ligands"  -> {"L-Proline", "PPh3", "1,10-Phenanthroline"}

TopNames(k) ==
    CASE k = "solvents" -> {"toluene", "dmso", "dmf"}
      [] k = "bases"    -> {"k2co3", "cs2co3", "tea"}
      [] k = "ligands"  -> {"l-proline", "pPh3", "phen"}

\* Canon, computed once for each name of the model
CanonTable == [k \in Kinds |-> [n \in RecNames(k) \cup TopNames(k) |-> Canon(k, n)]]

CanonOf(k, name) ==
    IF name \in DOMAIN CanonTable[k] THEN CanonTable[k][name] ELSE Canon(k, name)

\* pri_map = { _canon(k): float(v) for k, v in pri.items() }
RECURSIVE PriMapFrom(_, _, _)
PriMapFrom(k, pri, acc) ==
    IF pri = <<>> THEN acc
    ELSE PriMapFrom(k, Tail(pri), DictPut(acc, CanonOf(k, Head(pri)[1]), Head(pri)[2]))

PriMap(k, pri) == PriMapFrom(k, pri, <<>>)

WFreq(cfg, k) ==
    CASE k = "solvents" -> cfg.w_freq_solvents
      [] k = "bases"    -> cfg.w_freq_bases
      [] k = "ligands"  -> cfg.w_freq_ligands

PenaltyFactor(cfg, k) ==
    CASE k = "solvents" -> cfg.penalty_factor_solvents
      [] k = "bases"    -> cfg.penalty_factor_bases
      [] k = "ligands"  -> cfg.penalty_factor_ligands

\* float(cfg.get('min_support_pct', 0.01) or 0.01)
MinPct(cfg) == IF cfg.min_support_pct = 0 THEN 100 ELSE cfg.min_support_pct

\* the support fractions of the model: squares, so that math.sqrt is exact
Pcts == {25, 2500, 8100}

\* math.sqrt(pct) in hundredths, pct in ten-thousandths
SqrtTable == [p \in Pcts |-> CHOOSE k \in 0..p : k * k = p]
Sqrt(pct) == SqrtTable[pct]

\* mutant: the boost is not capped at 1.0
AdjustedTimes10000_NoCap(base_score, pct, cfg, k) ==
    IF base_score > 0
    THEN IF pct >= MinPct(cfg)
         THEN base_score * (10000 + WFreq(cfg, k) * Sqrt(pct))
         ELSE IF cfg.soft_penalty
              THEN Max(0, base_score * PenaltyFactor(cfg, k) * 100)
              ELSE base_score * 10000
    ELSE base_score * 10000

\* adj before round(adj, 3), as n in n/10000 thousandths
AdjustedTimes10000(base_score, pct, cfg, k) ==
    IF base_score > 0
    THEN IF pct >= MinPct(cfg)
         THEN Min(1000 * 10000, base_score * (10000 + WFreq(cfg, k) * Sqrt(pct)))
         ELSE IF cfg.soft_penalty
              THEN Max(0, base_score * PenaltyFactor(cfg, k) * 100)
              ELSE base_score * 10000
    ELSE base_score * 10000

\* ns = dict(s); ns['compatibility_score'] = round(adj, 3)
BlendOne(rec, pri_map, cfg, k) ==
    LET pct == DictGet(pri_map, CanonOf(k, rec.name), 0)
    IN  [rec EXCEPT !.compatibility_score =
            RoundDiv(AdjustedTimes10000(rec.compatibility_score, pct, cfg, k), 10000)]

\* mutant: the list is returned in its input order
SortedByScore_Unsorted(lst) == lst

\* boosted.sort(key=lambda x: x.get('compatibility_score', 0.0), reverse=True)
SortedByScore(lst) ==
    SortDesc(lst, [i \in 1..Len(lst) |-> lst[i].compatibility_score])

ApplyFreqPriors(lst, summ, cfg, k) ==
    LET pri == ExtractPriors(summ, k)
        pri_map == PriMap(k, pri)
        boosted == [i \in 1..Len(lst) |-> BlendOne(lst[i], pri_map, cfg, k)]
    IN  IF pri = <<>> THEN lst ELSE SortedByScore(boosted)

ApplyFreqPriorsSolvents(lst, summ, cfg) == ApplyFreqPriors(lst, summ, cfg, "solvents")
ApplyFreqPriorsBases(lst, summ, cfg) == ApplyFreqPriors(lst, summ, cfg, "bases")
ApplyFreqPriorsLigands(lst, summ, cfg) == ApplyFreqPriors(lst, summ, cfg, "ligands")

(***************************************************************************)
(* The inputs of prior blending.                                           *)
(***************************************************************************)
Scores == {0, 640, 920}

DistinctNames(f) == \A i, j \in DOMAIN f : i # j => f[i][1] # f[j][1]

RecLists(k) ==
    UNION {{[i \in 1..n |-> [rank |-> i, name |-> f[i][1], compatibility_score |-> f[i][2]]] :
              f \in {g \in [1..n -> RecNames(k) \X Scores] : DistinctNames(g)}} :
           n \in 0..MaxRecs}

\* a top list of the aggregator: distinct names, most frequent first
PctDescending(f) == \A i, j \in DOMAIN f : i < j => f[i][2] >= f[j][2]

TopLists(k) ==
    UNION {{[i \in 1..n |-> [name |-> f[i][1], pct |-> f[i][2]]] :
              f \in {g \in [1..n -> TopNames(k) \X Pcts] :
                        DistinctNames(g) /\ PctDescending(g)}} :
           n \in 0..MaxTop}

Cfgs ==
    { DefaultCfg,
      [DefaultCfg EXCEPT !.soft_penalty = FALSE],
      [DefaultCfg EXCEPT !.w_freq_solvents = -200, !.w_freq_bases = -200,
                         !.w_freq_ligands = -200],
      [DefaultCfg EXCEPT !.penalty_factor_solvents = 150, !.penalty_factor_bases = 150,
                         !.penalty_factor_ligands = 150] }

EmptyTop == [k \in Kinds |-> <<>>]

\* prior blending at rest
BlendIdle ==
    /\ analytics_cfg = DefaultCfg
    /\ kind = "solvents"
    /\ recs = <<>>
    /\ summary = [top |-> EmptyTop]
    /\ blended = <<>>
    /\ pc = "idle"

\* the loader at rest
LoadIdle ==
    /\ source = [shape |-> "missing", entries |-> <<>>]
    /\ lkind = "bases"
    /\ table = <<>>
    /\ origin = "none"
    /\ lpc = "idle"

\* no export run, an empty output directory
Runners == {1, 2}
NoFile == [present |-> FALSE, rows |-> "", generated_at |-> 0]
NoDir == [dir |-> FALSE, summary |-> NoFile]
IdleRun == [pc |-> "idle", summary |-> NoFile, ts |-> 0]

ExportIdle ==
    /\ dataset = "missing"
    /\ clock = 0
    /\ versions = [s \in 0..MaxClock |-> NoDir]
    /\ latest = NoFile
    /\ run = [p \in Runners |-> [IdleRun EXCEPT !.pc = "off"]]
    /\ overlapped = FALSE

\* the scoring component at rest
ScoreIdle ==
    /\ repo = <<>>
    /\ request = [kind |-> "ligands", target |-> "", reaction_type |-> "Cross-Coupling",
                  top_n |-> 5, min_compatibility |-> 300]
    /\ scalers = TRUE
    /\ result = <<>>
    /\ spc = "idle"

\* the combination ranker at rest
CombineIdle ==
    /\ ligands = <<>>
    /\ solvents = <<>>
    /\ ctype = "Cross-Coupling"
    /\ combined = <<>>
    /\ cpc = "idle"

\* the four components above at rest
EarlierIdle == BlendIdle /\ ScoreIdle /\ LoadIdle /\ ExportIdle
earlierVars == <<blendVars, scoreVars, loadVars, exportVars>>

\* the normalizer at rest
NormalizeIdle ==
    /\ ntoken = ""
    /\ nfunc = "map_base"
    /\ nresult = ""
    /\ npc = "idle"

\* the aggregator at rest
AggregateIdle ==
    /\ input_rows = <<>>
    /\ utcnow = 0
    /\ summaries = <<>>
    /\ winsorized = <<>>

EngineIdle ==
    /\ available = TRUE
    /\ base_engine = "absent"
    /\ ecall = <<>>
    /\ eresult = <<>>
    /\ epc = "ready"

PayloadIdle ==
    /\ xresult = <<>>
    /\ xrelated = <<>>
    /\ xfiles = <<>>
    /\ payload = <<>>
    /\ xpc = "ready"

CanonIdle ==
    /\ ctoken = <<>> /\ cvariant = <<>> /\ cdiffer = "same"
    /\ cresult = "" /\ cvresult = "" /\ cagain = "" /\ kpc = 0

ParseIdle ==
    /\ ptext = <<>> /\ pwritten = <<>> /\ presult = <<>> /\ ppc = "ready"

HarvestIdle ==
    /\ hdataset = <<>> /\ htype = "" /\ hevidence = <<>> /\ hpc = "ready"

\* the later components at rest
LaterIdle == CombineIdle /\ NormalizeIdle /\ AggregateIdle /\ EngineIdle /\ PayloadIdle /\ CanonIdle /\ ParseIdle /\ HarvestIdle

\* every component but one at rest
CombineAlone == EarlierIdle /\ NormalizeIdle /\ AggregateIdle /\ EngineIdle /\ PayloadIdle /\ CanonIdle /\ ParseIdle /\ HarvestIdle
NormalizeAlone == EarlierIdle /\ CombineIdle /\ AggregateIdle /\ EngineIdle /\ PayloadIdle /\ CanonIdle /\ ParseIdle /\ HarvestIdle
AggregateAlone == EarlierIdle /\ CombineIdle /\ NormalizeIdle /\ EngineIdle /\ PayloadIdle /\ CanonIdle /\ ParseIdle /\ HarvestIdle
EngineAlone == EarlierIdle /\ CombineIdle /\ NormalizeIdle /\ AggregateIdle /\ PayloadIdle /\ CanonIdle /\ ParseIdle /\ HarvestIdle
PayloadAlone == EarlierIdle /\ CombineIdle /\ NormalizeIdle /\ AggregateIdle /\ EngineIdle /\ CanonIdle /\ ParseIdle /\ HarvestIdle
CanonAlone == EarlierIdle /\ CombineIdle /\ NormalizeIdle /\ AggregateIdle /\ EngineIdle /\ PayloadIdle /\ ParseIdle /\ HarvestIdle
ParseAlone == EarlierIdle /\ CombineIdle /\ NormalizeIdle /\ AggregateIdle /\ EngineIdle /\ PayloadIdle /\ CanonIdle /\ HarvestIdle
HarvestAlone == EarlierIdle /\ CombineIdle /\ NormalizeIdle /\ AggregateIdle /\ EngineIdle /\ PayloadIdle /\ CanonIdle /\ ParseIdle
combineRest == <<earlierVars, normalizeVars, aggregateVars, engineVars, payloadVars, canonVars, parseVars, harvestVars>>
normalizeRest == <<earlierVars, combineVars, aggregateVars, engineVars, payloadVars, canonVars, parseVars, harvestVars>>
aggregateRest == <<earlierVars, combineVars, normalizeVars, engineVars, payloadVars, canonVars, parseVars, harvestVars>>
engineRest == <<earlierVars, combineVars, normalizeVars, aggregateVars, payloadVars, canonVars, parseVars, harvestVars>>
payloadRest == <<earlierVars, combineVars, normalizeVars, aggregateVars, engineVars, canonVars, parseVars, harvestVars>>
canonRest == <<earlierVars, combineVars, normalizeVars, aggregateVars, engineVars, payloadVars, parseVars, harvestVars>>
parseRest == <<earlierVars, combineVars, normalizeVars, aggregateVars, engineVars, payloadVars, canonVars, harvestVars>>
harvestRest == <<earlierVars, combineVars, normalizeVars, aggregateVars, engineVars, payloadVars, canonVars, parseVars>>

InitBlend ==
    /\ analytics_cfg \in Cfgs
    /\ kind \in Kinds
    /\ recs \in RecLists(kind)
    /\ \E t \in TopLists(kind) : summary = [top |-> [EmptyTop EXCEPT ![kind] = t]]
    /\ blended = <<>>
    /\ pc = "ready"
    /\ ScoreIdle /\ LoadIdle /\ ExportIdle /\ LaterIdle

BlendSolvents ==
    /\ pc = "ready" /\ kind = "solvents"
    /\ blended' = ApplyFreqPriorsSolvents(recs, summary, analytics_cfg)
    /\ pc' = "done"
    /\ UNCHANGED <<analytics_cfg, kind, recs, summary>>
    /\ UNCHANGED <<scoreVars, loadVars, exportVars, laterVars>>

BlendBases ==
    /\ pc = "ready" /\ kind = "bases"
    /\ blended' = ApplyFreqPriorsBases(recs, summary, analytics_cfg)
    /\ pc' = "done"
    /\ UNCHANGED <<analytics_cfg, kind, recs, summary>>
    /\ UNCHANGED <<scoreVars, loadVars, exportVars, laterVars>>

BlendLigands ==
    /\ pc = "ready" /\ kind = "ligands"
    /\ blended' = ApplyFreqPriorsLigands(recs, summary, analytics_cfg)
    /\ pc' = "done"
    /\ UNCHANGED <<analytics_cfg, kind, recs, summary>>
    /\ UNCHANGED <<scoreVars, loadVars, exportVars, laterVars>>

NextBlend == BlendSolvents \/ BlendBases \/ BlendLigands

SpecBlend == InitBlend /\ [][NextBlend]_vars

(***************************************************************************)
(* Claims about prior blending.                                            *)
(***************************************************************************)
\* what the blended entry at position i started from, and its support
BaseScoreOf(e) == recs[e.rank].compatibility_score
SupportOf(e) == DictGet(PriMap(kind, ExtractPriors(summary, kind)), CanonOf(kind, e.name), 0)
Supported(e) == SupportOf(e) >= MinPct(analytics_cfg)
BlendDone == pc = "done"

\* C1: every compatibility_score in the list returned by prior blending lies
\* in [0,1], whatever the pct values, the weight and the penalty factor are.
C1_ScoresInUnitInterval ==
    BlendDone =>
        \A i \in 1..Len(blended) :
            /\ blended[i].compatibility_score >= 0
            /\ blended[i].compatibility_score <= 1000

\* C2 as claimed (read for the engine's default configuration and a positive
\* base score): of two recommendations with equal base score, both found in
\* the priors map with pct >= min_support_pct, the one with the strictly
\* higher pct is never placed after the other.
C2_HigherPctNeverAfter ==
    (BlendDone /\ analytics_cfg = DefaultCfg) =>
        \A i, j \in 1..Len(blended) :
            ( /\ i < j
              /\ BaseScoreOf(blended[i]) > 0
              /\ BaseScoreOf(blended[i]) = BaseScoreOf(blended[j])
              /\ Supported(blended[i]) /\ Supported(blended[j]) )
            => ~(SupportOf(blended[j]) > SupportOf(blended[i]))

\* C2 as amended: with a non-negative weight the one with the strictly higher
\* pct never gets the lower blended score, and it is placed after the other
\* only when their blended scores (capped at 1.0, rounded to 3 decimals) are
\* equal and it already came later in the input list.
C2_HigherPctAfterOnlyOnTie ==
    (BlendDone /\ WFreq(analytics_cfg, kind) >= 0) =>
        \A i, j \in 1..Len(blended) :
            ( /\ BaseScoreOf(blended[i]) = BaseScoreOf(blended[j])
              /\ Supported(blended[i]) /\ Supported(blended[j])
              /\ SupportOf(blended[j]) > SupportOf(blended[i]) )
            => /\ blended[j].compatibility_score >= blended[i].compatibility_score
               /\ i < j => /\ blended[j].compatibility_score = blended[i].compatibility_score
                           /\ blended[i].rank < blended[j].rank

\* C2's case: the sort moved a higher-pct entry in front of an equal-base
\* entry that preceded it in the input
C2_Witness ==
    /\ BlendDone /\ WFreq(analytics_cfg, kind) >= 0
    /\ \E i, j \in 1..Len(blended) :
          /\ i < j
          /\ BaseScoreOf(blended[i]) = BaseScoreOf(blended[j])
          /\ Supported(blended[i]) /\ Supported(blended[j])
          /\ SupportOf(blended[i]) > SupportOf(blended[j])
          /\ blended[i].rank > blended[j].rank
          /\ blended[i].compatibility_score > blended[j].compatibility_score

\* C3 as claimed (read for the engine's default configuration): base score b
\* becomes exactly min(1.0, b*(1+w*sqrt(pct))) when the name is in the priors
\* map with pct >= min_support_pct, exactly b*penalty_factor (never below 0)
\* when it is absent or below the threshold, and 0 when b is 0.
C3_ExactFormula ==
    (BlendDone /\ analytics_cfg = DefaultCfg) =>
        \A i \in 1..Len(blended) :
            LET e == blended[i]
                b == BaseScoreOf(e)
                w == WFreq(analytics_cfg, kind)
            IN  IF b = 0 THEN e.compatibility_score = 0
                ELSE IF Supported(e)
                THEN e.compatibility_score * 10000
                         = Min(1000 * 10000, b * (10000 + w * Sqrt(SupportOf(e))))
                ELSE e.compatibility_score * 100
                         = Max(0, b * PenaltyFactor(analytics_cfg, kind))

\* x thousandths is n/d thousandths rounded to the nearest thousandth
IsRounded(x, n, d) == 2 * Abs(x * d - n) <= d

\* C3 as amended: when the summary yields at least one prior for the class,
\* the score is the claimed value rounded to 3 decimals, the penalty applying
\* only while soft_penalty is enabled (b is kept when it is disabled); when
\* the summary yields no prior the list is returned unchanged.
C3_RoundedFormula ==
    BlendDone =>
        \A i \in 1..Len(blended) :
            LET e == blended[i]
                b == BaseScoreOf(e)
                w == WFreq(analytics_cfg, kind)
            IN  IF ExtractPriors(summary, kind) = <<>> THEN blended = recs
                ELSE IF b = 0 THEN e.compatibility_score = 0
                ELSE IF Supported(e)
                THEN IsRounded(e.compatibility_score,
                               Min(1000 * 10000, b * (10000 + w * Sqrt(SupportOf(e)))), 10000)
                ELSE IF analytics_cfg.soft_penalty
                THEN IsRounded(e.compatibility_score,
                               Max(0, b * PenaltyFactor(analytics_cfg, kind)), 100)
                ELSE e.compatibility_score = b

\* C3's case: one entry boosted to a value that needed rounding, another
\* penalised, a third capped at 1.0
C3_Witness ==
    /\ BlendDone
    /\ \E i, j \in 1..Len(blended) :
          /\ Supported(blended[i])
          /\ blended[i].compatibility_score * 10000
                 # BaseScoreOf(blended[i])
                       * (10000 + WFreq(analytics_cfg, kind) * Sqrt(SupportOf(blended[i])))
          /\ blended[i].compatibility_score < 1000
          /\ blended[i].compatibility_score > BaseScoreOf(blended[i])
          /\ ~Supported(blended[j])
          /\ BaseScoreOf(blended[j]) > 0
          /\ blended[j].compatibility_score < BaseScoreOf(blended[j])

(***************************************************************************)
(* Compatibility scoring: recommend_ligands_for_reaction,                  *)
(* recommend_solvents_for_reaction, recommend_bases_for_reaction.          *)
(*                                                                         *)
(* A table row is [name, rc, features].  rc is the Reaction_Compatibility  *)
(* string: numeric says whether float() accepts every comma-separated      *)
(* token, scores are the tokens in thousandths.  features are the numeric  *)
(* columns of the feature matrix, small integers standing for the          *)
(* physical values.  A similarity is an integer number of 1/100000, a      *)
(* ranking key 0.6*c + 0.4*s an integer number of 1/1000000.               *)
(***************************************************************************)
reaction_types ==
    <<"Cross-Coupling", "Hydrogenation", "Metathesis", "C-H_Activation", "Carbonylation">>

IndexOf(seq, x) == CHOOSE i \in 1..Len(seq) : seq[i] = x

InSeq(seq, x) == \E i \in 1..Len(seq) : seq[i] = x

RECURSIVE SumSeq(_)
SumSeq(seq) == IF seq = <<>> THEN 0 ELSE Head(seq) + SumSeq(Tail(seq))

\* lst[:n] of Python: a negative n counts from the end
SliceTo(lst, n) ==
    IF n >= 0 THEN SubSeq(lst, 1, Min(n, Len(lst)))
    ELSE SubSeq(lst, 1, Max(0, Len(lst) + n))

\* REACTION_WEIGHTS, in hundredths, in the order of the feature columns
REACTION_WEIGHTS ==
    [ r \in {reaction_types[i] : i \in 1..5} |->
        CASE r = "Cross-Coupling" -> <<25, 20, 15, 15, 10, 5, 10>>
          [] r = "Hydrogenation"  -> <<15, 30, 15, 10, 15, 5, 10>>
          [] r = "Metathesis"     -> <<20, 25, 10, 15, 5, 10, 15>>
          [] r = "C-H_Activation" -> <<20, 25, 10, 10, 15, 5, 15>>
          [] r = "Carbonylation"  -> <<20, 20, 15, 15, 15, 5, 10>> ]

SOLVENT_REACTION_WEIGHTS ==
    [ r \in {reaction_types[i] : i \in 1..5} |->
        CASE r = "Cross-Coupling" -> <<15, 20, 10, 5, 15, 25, 10>>
          [] r = "Hydrogenation"  -> <<10, 15, 15, 5, 10, 35, 10>>
          [] r = "Metathesis"     -> <<20, 25, 15, 5, 10, 5, 20>>
          [] r = "C-H_Activation" -> <<15, 25, 20, 5, 15, 10, 10>>
          [] r = "Carbonylation"  -> <<15, 20, 10, 5, 20, 20, 10>> ]

BASE_REACTION_WEIGHTS ==
    [ r \in {reaction_types[i] : i \in 1..5} |->
        CASE r = "Cross-Coupling" -> <<35, 25>>
          [] r = "Hydrogenation"  -> <<10, 10>>
          [] r = "Metathesis"     -> <<15, 10>>
          [] r = "C-H_Activation" -> <<25, 20>>
          [] r = "Carbonylation"  -> <<20, 15>> ]

WeightTable(k) ==
    CASE k = "ligands"  -> REACTION_WEIGHTS
      [] k = "solvents" -> SOLVENT_REACTION_WEIGHTS
      [] k = "bases"    -> BASE_REACTION_WEIGHTS

\* WEIGHTS.get(reaction_type, WEIGHTS["Cross-Coupling"])
WeightsFor(k, reaction_type) ==
    IF reaction_type \in DOMAIN WeightTable(k)
    THEN WeightTable(k)[reaction_type]
    ELSE WeightTable(k)["Cross-Coupling"]

\* mutant: the scores are read one slot too far
ParseCompatibility_NextSlot(k, rc, reaction_type) ==
    LET rt == IF k = "bases" /\ Lower(reaction_type) = "ullmann"
              THEN "Cross-Coupling" ELSE reaction_type
    IN  IF ~InSeq(reaction_types, rt) THEN 500
        ELSE IF ~rc.numeric THEN 500
        ELSE LET reaction_idx == IndexOf(reaction_types, rt) + 1
             IN  IF reaction_idx <= Len(rc.scores) THEN rc.scores[reaction_idx] ELSE 500

\* parse_reaction_compatibility, parse_solvent_reaction_compatibility and
\* parse_base_reaction_compatibility; only the last maps 'ullmann'
ParseCompatibility(k, rc, reaction_type) ==
    LET rt == IF k = "bases" /\ Lower(reaction_type) = "ullmann"
              THEN "Cross-Coupling" ELSE reaction_type
    IN  IF ~InSeq(reaction_types, rt) THEN 500
        ELSE IF ~rc.numeric THEN 500
        ELSE LET reaction_idx == IndexOf(reaction_types, rt)
             IN  IF reaction_idx <= Len(rc.scores) THEN rc.scores[reaction_idx] ELSE 500

\* MinMaxScaler().fit_transform(X), in thousandths; a constant column scales
\* to 0
FeatureMatrix(rows) ==
    LET n == Len(rows)
        cols == IF n = 0 THEN {} ELSE DOMAIN rows[1].features
        lo(c) == CHOOSE x \in {rows[i].features[c] : i \in 1..n} :
                     \A j \in 1..n : x <= rows[j].features[c]
        hi(c) == CHOOSE x \in {rows[i].features[c] : i \in 1..n} :
                     \A j \in 1..n : x >= rows[j].features[c]
    IN  [i \in 1..n |->
            [c \in cols |->
                IF hi(c) = lo(c) THEN 0
                ELSE ((rows[i].features[c] - lo(c)) * 1000) \div (hi(c) - lo(c))]]

\* calculate_weighted_similarity, calculate_solvent_weighted_similarity,
\* _weighted_similarity
WeightedSimilarity(v1, v2, weights) ==
    SumSeq([i \in 1..Len(weights) |->
        LET max_val == Max(Max(Abs(v1[i]), Abs(v2[i])), 1000)
            diff == (Abs(v1[i] - v2[i]) * 1000) \div max_val
        IN  weights[i] * (1000 - diff)])

\* the loop over df.iterrows(): the rows whose compatibility reaches
\* min_compatibility, in table order
RECURSIVE CandidatesFrom(_, _, _, _, _)
CandidatesFrom(k, rows, reaction_type, min_compatibility, idx) ==
    IF idx > Len(rows) THEN <<>>
    ELSE LET compatibility == ParseCompatibility(k, rows[idx].rc, reaction_type)
             rest == CandidatesFrom(k, rows, reaction_type, min_compatibility, idx + 1)
         IN  IF compatibility >= min_compatibility
             THEN <<[index |-> idx, name |-> rows[idx].name, compatibility |-> compatibility,
                     has_similarity |-> FALSE, similarity |-> 0,
                     has_adjusted |-> FALSE, adjusted |-> 0]>> \o rest
             ELSE rest

\* candidates.sort(key=lambda x: x["compatibility"], reverse=True)
SortedByCompatibility(cands) ==
    SortDesc(cands, [i \in 1..Len(cands) |-> cands[i].compatibility])

\* the first row whose name equals the target, case-insensitively; 0 for None
TargetIdx(rows, target) ==
    IF \E i \in 1..Len(rows) : Lower(rows[i].name) = Lower(target)
    THEN CHOOSE i \in 1..Len(rows) :
             /\ Lower(rows[i].name) = Lower(target)
             /\ \A j \in 1..(i - 1) : Lower(rows[j].name) # Lower(target)
    ELSE 0

\* x["compatibility"] * 0.6 + x["similarity"] * 0.4
CombinedKey(c) == 600 * c.compatibility + 4 * c.similarity

\* mutant: the candidates keep their compatibility order
SortedByCombined_Unsorted(cands) == cands

SortedByCombined(cands) ==
    SortDesc(cands, [i \in 1..Len(cands) |-> CombinedKey(cands[i])])

\* the similarity branch: every candidate gets its similarity to the target,
\* the target itself is removed, the rest is sorted by the combined key
RankBySimilarity(k, rows, cands, target_idx, reaction_type) ==
    LET X == FeatureMatrix(rows)
        weights == WeightsFor(k, reaction_type)
        scored == [i \in 1..Len(cands) |->
                      [cands[i] EXCEPT
                          !.has_similarity = TRUE,
                          !.similarity =
                              IF cands[i].index # target_idx
                              THEN WeightedSimilarity(X[target_idx], X[cands[i].index], weights)
                              ELSE 0]]
    IN  SortedByCombined(SelectSeq(scored, LAMBDA c : c.index # target_idx))

\* base.py: _is_ullmann_favored
UllmannTokens ==
    {"k2co3", "cs2co3", "k3po4", "kotbu", "naotbu", "potassium carbonate",
     "cesium carbonate", "potassium phosphate"}

IsUllmannFavored(name) == \E t \in UllmannTokens : Contains(Lower(name), t)

\* base.py: the Ullmann adjustment, +0.2 clamped to [0,1], and the re-sort
UllmannAdjusted(cands) ==
    LET adj == [i \in 1..Len(cands) |->
                   [cands[i] EXCEPT
                       !.has_adjusted = TRUE,
                       !.adjusted = Max(0, Min(1000, cands[i].compatibility
                                        + (IF IsUllmannFavored(cands[i].name) THEN 200 ELSE 0)))]]
    IN  SortDesc(adj, [i \in 1..Len(adj) |-> adj[i].adjusted])

\* b.get('adjusted', b["compatibility"])
BaseComp(c) == IF c.has_adjusted THEN c.adjusted ELSE c.compatibility

\* the recommendation built from candidate c at position i
MakeRec(c, i, reaction_type) ==
    [ rank                 |-> i,
      name                 |-> c.name,
      compatibility_score  |-> BaseComp(c),
      reaction_suitability |-> reaction_type,
      has_similarity       |-> c.has_similarity,
      similarity_score     |-> IF c.has_similarity THEN RoundDiv(c.similarity, 100) ELSE 0,
      combined_score       |-> IF c.has_similarity
                               THEN RoundDiv(600 * BaseComp(c) + 4 * c.similarity, 1000)
                               ELSE 0,
      source               |-> "table" ]

MakeRecs(cands, top_n, reaction_type) ==
    LET top == SliceTo(cands, top_n)
    IN  [i \in 1..Len(top) |-> MakeRec(top[i], i, reaction_type)]

\* base.py: the curated fallback for Ullmann
CuratedBases(reaction_type) ==
    LET curated(i, nm, score) ==
            [ rank |-> i, name |-> nm, compatibility_score |-> score,
              reaction_suitability |-> reaction_type, has_similarity |-> FALSE,
              similarity_score |-> 0, combined_score |-> 0, source |-> "curated" ]
    IN  << curated(1, "K2CO3", 800), curated(2, "Cs2CO3", 780),
           curated(3, "K3PO4", 750), curated(4, "KOtBu", 720) >>

\* recommend_ligands_for_reaction
RecommendLigandsForReaction(rows, target_ligand, reaction_type, top_n, min_compatibility) ==
    LET compatible == SortedByCompatibility(
                          CandidatesFrom("ligands", rows, reaction_type, min_compatibility, 1))
        target_idx == IF target_ligand # "" THEN TargetIdx(rows, target_ligand) ELSE 0
        ranked == IF target_idx # 0
                  THEN RankBySimilarity("ligands", rows, compatible, target_idx, reaction_type)
                  ELSE compatible
    IN  MakeRecs(ranked, top_n, reaction_type)

\* create_solvent_feature_matrix calls MinMaxScaler(), which is None when
\* scikit-learn is missing: the call raises once a target resolved
SolventScalerMissing(rows, target_solvent, have_scalers) ==
    /\ target_solvent # ""
    /\ TargetIdx(rows, target_solvent) # 0
    /\ ~have_scalers

\* recommend_solvents_for_reaction
RecommendSolventsForReaction(rows, target_solvent, reaction_type, top_n, min_compatibility) ==
    LET compatible == SortedByCompatibility(
                          CandidatesFrom("solvents", rows, reaction_type, min_compatibility, 1))
        target_idx == IF target_solvent # "" THEN TargetIdx(rows, target_solvent) ELSE 0
        ranked == IF target_idx # 0
                  THEN RankBySimilarity("solvents", rows, compatible, target_idx, reaction_type)
                  ELSE compatible
    IN  MakeRecs(ranked, top_n, reaction_type)

\* recommend_bases_for_reaction
RecommendBasesForReaction(rows, target_base, reaction_type, top_n, min_compatibility, have_scalers) ==
    LET candidates == SortedByCompatibility(
                          CandidatesFrom("bases", rows, reaction_type, min_compatibility, 1))
        target_idx == IF target_base # "" THEN TargetIdx(rows, target_base) ELSE 0
        ranked == IF target_idx # 0 /\ Len(candidates) > 1 /\ have_scalers
                  THEN RankBySimilarity("bases", rows, candidates, target_idx, reaction_type)
                  ELSE candidates
        is_ullmann == Contains(Lower(reaction_type), "ullmann")
        adjusted == IF is_ullmann THEN UllmannAdjusted(ranked) ELSE ranked
        recs_ == MakeRecs(adjusted, top_n, reaction_type)
    IN  IF recs_ = <<>> /\ is_ullmann
        THEN SliceTo(CuratedBases(reaction_type), top_n)
        ELSE recs_

(***************************************************************************)
(* The inputs of compatibility scoring.                                    *)
(***************************************************************************)
Numeric(scores) == [numeric |-> TRUE, scores |-> scores]

\* the rows the model builds its tables from
Catalogue(k) ==
    CASE k = "ligands" ->
           { [name |-> "PPh3", rc |-> Numeric(<<700, 800, 300, 600, 800>>),
              features |-> <<2, 1, 0, 1, 0, 0, 0>>],
             [name |-> "1,10-Phenanthroline", rc |-> Numeric(<<600, 300, 200, 700, 400>>),
              features |-> <<0, 0, 1, 0, 1, 1, 1>>],
             [name |-> "XPhos", rc |-> Numeric(<<950, 300, 200, 800, 600>>),
              features |-> <<2, 2, 0, 2, 1, 2, 0>>],
             [name |-> "L-Proline", rc |-> Numeric(<<200, 100, 100, 300, 200>>),
              features |-> <<0, 0, 2, 0, 2, 0, 1>>] }
      [] k = "solvents" ->
           { [name |-> "Toluene", rc |-> Numeric(<<900, 800, 900, 800, 700>>),
              features |-> <<0, 0, 1, 0, 0, 0, 0>>],
             [name |-> "DMSO", rc |-> Numeric(<<600, 200, 100, 700, 500>>),
              features |-> <<2, 2, 2, 2, 2, 2, 0>>],
             [name |-> "Dimethylformamide", rc |-> Numeric(<<800, 300, 200, 700, 600>>),
              features |-> <<2, 2, 1, 1, 2, 2, 0>>],
             [name |-> "Water", rc |-> [numeric |-> FALSE, scores |-> <<>>],
              features |-> <<2, 2, 1, 1, 1, 1, 2>>] }
      [] k = "bases" ->
           { [name |-> "Potassium carbonate (K2CO3)", rc |-> Numeric(<<900, 200, 100, 700, 600>>),
              features |-> <<1, 0>>],
             [name |-> "Cs2CO3", rc |-> Numeric(<<900, 200, 100, 800, 600>>),
              features |-> <<1, 1>>],
             [name |-> "Triethylamine", rc |-> Numeric(<<600, 300, 200, 500, 700>>),
              features |-> <<1, 2>>],
             [name |-> "DBU", rc |-> Numeric(<<950, 200>>),
              features |-> <<2, 2>>] }

\* tables of distinct rows, in any order; only the base table can be empty
\* (the ligand table is built in, the solvent loader falls back to its
\* built-in table)
Tables(k) ==
    UNION {{f \in [1..n -> Catalogue(k)] : \A i, j \in 1..n : i # j => f[i] # f[j]} :
           n \in (IF k = "bases" THEN 0 ELSE 1)..MaxRepo}

\* reference names: none, a row's name in another case, a row's name, a
\* name no row has
Targets(k) ==
    CASE k = "ligands"  -> {"", "pph3", "XPhos", "BINAP"}
      [] k = "solvents" -> {"", "toluene", "DMSO", "Hexane"}
      [] k = "bases"    -> {"", "cs2co3", "DBU", "NaH"}

ReactionTypes ==
    {reaction_types[i] : i \in 1..5} \cup {"Ullmann", "C-N Coupling - Ullmann"}

MinCompatibilities == {300, 600}

Requests ==
    [ kind : Kinds, target : UNION {Targets(k) : k \in Kinds}, reaction_type : ReactionTypes,
      top_n : (-1)..MaxTopN, min_compatibility : MinCompatibilities ]

InitScore ==
    /\ request \in {r \in Requests : r.target \in Targets(r.kind)}
    /\ repo \in Tables(request.kind)
    /\ scalers \in BOOLEAN
    /\ result = <<>>
    /\ spc = "ready"
    /\ BlendIdle /\ LoadIdle /\ ExportIdle /\ LaterIdle

RecommendLigands ==
    /\ spc = "ready" /\ request.kind = "ligands"
    /\ result' = RecommendLigandsForReaction(repo, request.target, request.reaction_type,
                                             request.top_n, request.min_compatibility)
    /\ spc' = "done"
    /\ UNCHANGED <<repo, request, scalers>>
    /\ UNCHANGED <<blendVars, loadVars, exportVars, laterVars>>

RecommendSolvents ==
    /\ spc = "ready" /\ request.kind = "solvents"
    /\ IF SolventScalerMissing(repo, request.target, scalers)
       THEN result' = <<>> /\ spc' = "raised"
       ELSE /\ result' = RecommendSolventsForReaction(repo, request.target,
                              request.reaction_type, request.top_n, request.min_compatibility)
            /\ spc' = "done"
    /\ UNCHANGED <<repo, request, scalers>>
    /\ UNCHANGED <<blendVars, loadVars, exportVars, laterVars>>

RecommendBases ==
    /\ spc = "ready" /\ request.kind = "bases"
    /\ result' = RecommendBasesForReaction(repo, request.target, request.reaction_type,
                                           request.top_n, request.min_compatibility, scalers)
    /\ spc' = "done"
    /\ UNCHANGED <<repo, request, scalers>>
    /\ UNCHANGED <<blendVars, loadVars, exportVars, laterVars>>

NextScore == RecommendLigands \/ RecommendSolvents \/ RecommendBases

SpecScore == InitScore /\ [][NextScore]_vars

(***************************************************************************)
(* Claims about compatibility scoring.                                     *)
(***************************************************************************)
ScoreDone == spc = "done"
IsUllmannFamily == Contains(Lower(request.reaction_type), "ullmann")
RowNamed(nm) == CHOOSE i \in 1..Len(repo) : repo[i].name = nm
HasRow(nm) == \E i \in 1..Len(repo) : repo[i].name = nm
ResultNames == {result[i].name : i \in 1..Len(result)}
PositionOf(nm) == CHOOSE i \in 1..Len(result) : result[i].name = nm

\* C4: for "C-N Coupling - Ullmann" the ligand scorer adds 0.2 to nitrogen
\* donors and subtracts 0.2 from phosphines and re-sorts: from a table
\* holding PPh3 (0.7) and 1,10-Phenanthroline (0.6), Phenanthroline is
\* returned with 0.8 and ranks above PPh3 with 0.5.
C4_UllmannLigandAdjustment ==
    ( /\ ScoreDone /\ request.kind = "ligands"
      /\ request.reaction_type = "C-N Coupling - Ullmann"
      /\ request.target = "" /\ request.top_n >= 2 /\ request.min_compatibility = 300
      /\ Len(repo) = 2 /\ HasRow("PPh3") /\ HasRow("1,10-Phenanthroline") )
    => /\ {"PPh3", "1,10-Phenanthroline"} \subseteq ResultNames
       /\ result[PositionOf("1,10-Phenanthroline")].compatibility_score = 800
       /\ result[PositionOf("PPh3")].compatibility_score = 500
       /\ PositionOf("1,10-Phenanthroline") < PositionOf("PPh3")

\* nitrogen-donor ligands by name token
NitrogenDonorTokens == {"phenanthroline", "bipyridine", "proline", "diamine"}
IsNitrogenDonor(nm) == \E t \in NitrogenDonorTokens : Contains(Lower(nm), t)

\* C5: for the Ullmann family the ligand list holds at least top_n/2
\* nitrogen-donor ligands (curated defaults appended when the table supplies
\* fewer, also when min_compatibility excludes every row) and never more
\* than top_n entries.
C5_NitrogenDonorFloor ==
    (ScoreDone /\ request.kind = "ligands" /\ IsUllmannFamily /\ request.top_n >= 0)
    => /\ Cardinality({i \in 1..Len(result) : IsNitrogenDonor(result[i].name)})
              >= request.top_n \div 2
       /\ Len(result) <= request.top_n

\* what the recommender is asked to rank
CompatOf(i) == ParseCompatibility(request.kind, repo[i].rc, request.reaction_type)
Qualifying == {i \in 1..Len(repo) : CompatOf(i) >= request.min_compatibility}
RefIdx == IF request.target = "" THEN 0 ELSE TargetIdx(repo, request.target)
SimilarityTo(i) ==
    WeightedSimilarity(FeatureMatrix(repo)[RefIdx], FeatureMatrix(repo)[i],
                       WeightsFor(request.kind, request.reaction_type))
NamesRowsOf(S) ==
    /\ \A i \in 1..Len(result) : HasRow(result[i].name) /\ RowNamed(result[i].name) \in S
    /\ \A i, j \in 1..Len(result) : i # j => result[i].name # result[j].name
TaggedWithRequest ==
    \A i \in 1..Len(result) : result[i].reaction_suitability = request.reaction_type
\* the result is the head of S in descending order of key
HeadByKey(S, key) ==
    /\ \A i, j \in 1..Len(result) :
          i < j => key[RowNamed(result[i].name)] >= key[RowNamed(result[j].name)]
    /\ \A r \in S \ {RowNamed(result[j].name) : j \in 1..Len(result)} :
          \A i \in 1..Len(result) : key[r] <= key[RowNamed(result[i].name)]
BoostedCompatOf(i) ==
    Min(1000, CompatOf(i) + (IF IsUllmannFavored(repo[i].name) THEN 200 ELSE 0))
\* the ranking keys of the rows
CompatKeys == [r \in 1..Len(repo) |-> CompatOf(r)]
CombinedKeys == [r \in 1..Len(repo) |-> 600 * CompatOf(r) + 4 * SimilarityTo(r)]
BoostedKeys == [r \in 1..Len(repo) |-> BoostedCompatOf(r)]

SimilarityApplies ==
    /\ RefIdx # 0
    /\ request.kind = "bases" => (Cardinality(Qualifying) > 1 /\ scalers)
Pool == IF SimilarityApplies THEN Qualifying \ {RefIdx} ELSE Qualifying
IsCuratedList ==
    /\ Len(result) = Min(request.top_n, 4)
    /\ \A i \in 1..Len(result) : result[i].source = "curated"
    /\ TaggedWithRequest

C7_UllmannUsesCrossCoupling ==
    (ScoreDone /\ request.reaction_type = "Ullmann" /\ request.top_n >= 0)
    => \A i \in 1..Len(result) :
          (result[i].source = "table" /\ repo[RowNamed(result[i].name)].rc.numeric)
          => LET first == repo[RowNamed(result[i].name)].rc.scores[1]
             IN  \/ result[i].compatibility_score = first
                 \/ /\ request.kind = "bases"
                    /\ IsUllmannFavored(result[i].name)
                    /\ result[i].compatibility_score = Min(1000, first + 200)

\* C11: a recommender called with an invalid configuration such as a
\* negative top_n raises to its caller instead of returning a list.
C11_NegativeTopNRaises ==
    (spc # "ready" /\ request.top_n < 0) => spc = "raised"

\* C12: in every reagent class and for every canonical reaction category the
\* feature weights of the similarity weight table sum to 1.0 (100
\* hundredths).
C12_WeightsSumToOne ==
    InSeq(reaction_types, request.reaction_type)
    => SumSeq(WeightTable(request.kind)[request.reaction_type]) = 100

(***************************************************************************)
(* Repository loading: create_base_dataframe, create_solvent_dataframe.    *)
(*                                                                         *)
(* A source is a collection file, a directory of single-record files, or   *)
(* absent.  A raw entry is what json.load gives for one record: form says  *)
(* whether it is a JSON object, another JSON value, or text json.load      *)
(* rejects.  Its reaction_compatibility is a mapping (pairs), a sequence   *)
(* (vals), a string (text; numeric, vals: what float() makes of it) or     *)
(* missing; bad says that some value of the mapping or sequence is one     *)
(* float() rejects.  The Reaction_Compatibility string of a loaded row is  *)
(* kept as the sequence of its comma-separated tokens.                     *)
(***************************************************************************)
order == reaction_types

NoRc ==
    [shape |-> "missing", pairs |-> <<>>, vals |-> <<>>, text |-> "", numeric |-> FALSE,
     bad |-> FALSE]

RcDict(pairs) == [NoRc EXCEPT !.shape = "dict", !.pairs = pairs]
RcList(vals) == [NoRc EXCEPT !.shape = "list", !.vals = vals]
RcStr(text, numeric, vals) ==
    [NoRc EXCEPT !.shape = "str", !.text = text, !.numeric = numeric, !.vals = vals]

\* bool(rc): an empty mapping, sequence or string counts as missing
RcTruthy(rc) ==
    CASE rc.shape = "dict" -> rc.pairs # <<>>
      [] rc.shape = "list" -> rc.vals # <<>> \/ rc.bad
      [] rc.shape = "str"  -> rc.text # ""
      [] OTHER             -> FALSE

\* _normalize_entry: rc_str
RcStrOf(rc) ==
    IF ~RcTruthy(rc) THEN Numeric(<<500, 500, 500, 500, 500>>)
    ELSE CASE rc.shape = "dict" ->
                Numeric([i \in 1..Len(order) |-> DictGet(rc.pairs, order[i], 500)])
           [] rc.shape = "list" -> Numeric(rc.vals)
           [] rc.shape = "str"  -> [numeric |-> rc.numeric, scores |-> rc.vals]

\* _normalize_entry raises: entry.get on a value that is no object, float()
\* on a value that is no number
NormalizeRaises(entry) ==
    \/ entry.form # "object"
    \/ RcTruthy(entry.rc) /\ entry.rc.shape \in {"dict", "list"} /\ entry.rc.bad

NormalizeEntry(entry) == [name |-> entry.name, rc |-> RcStrOf(entry.rc)]

\* the try block: the records read from the source, <<>> after any exception
LoadRecords(src) ==
    CASE src.shape \in {"file_list", "file_wrapped"} ->
            IF \E i \in 1..Len(src.entries) : NormalizeRaises(src.entries[i])
            THEN <<>>
            ELSE [i \in 1..Len(src.entries) |-> NormalizeEntry(src.entries[i])]
      [] src.shape = "dir" ->
            IF \E i \in 1..Len(src.entries) :
                  src.entries[i].form = "badjson" \/ NormalizeRaises(src.entries[i])
            THEN <<>>
            ELSE [i \in 1..Len(src.entries) |-> NormalizeEntry(src.entries[i])]
      [] OTHER -> <<>>

\* df[df['Base'].notna() & (df['Base'].astype(str).str.len() > 0)]
NamedRows(records) == SelectSeq(records, LAMBDA r : r.name # "")

\* the built-in solvent table (two of its rows)
solvent_data ==
    << [name |-> "Dimethylformamide", rc |-> Numeric(<<900, 300, 200, 800, 700>>)],
       [name |-> "Toluene", rc |-> Numeric(<<900, 700, 900, 800, 600>>)] >>

\* create_base_dataframe: the rows of the source, or an empty table
CreateBaseDataframe(src) ==
    LET records == LoadRecords(src)
    IN  IF records # <<>>
        THEN [rows |-> NamedRows(records), origin |-> "json"]
        ELSE [rows |-> <<>>, origin |-> "empty"]

\* create_solvent_dataframe: the rows of the source, or the built-in table
CreateSolventDataframe(src) ==
    LET records == LoadRecords(src)
    IN  IF records # <<>>
        THEN [rows |-> NamedRows(records), origin |-> "json"]
        ELSE [rows |-> solvent_data, origin |-> "builtin"]

(***************************************************************************)
(* The inputs of repository loading.                                       *)
(***************************************************************************)
RawEntry(form, name, rc) == [form |-> form, name |-> name, rc |-> rc]

RawNames(k) ==
    IF k = "bases" THEN <<"K2CO3", "Cs2CO3", "DBU", "KOtBu", "NaH", "K3PO4">>
    ELSE <<"Toluene", "DMSO", "Water", "THF", "Hexane", "Ethanol">>

\* the records the model builds its sources from
RawEntries(k) ==
    { RawEntry("object", RawNames(k)[1],
               RcDict(<< <<"Cross-Coupling", 900>>, <<"Hydrogenation", 200>>,
                         <<"Metathesis", 100>>, <<"C-H_Activation", 700>>,
                         <<"Carbonylation", 600>> >>)),
      RawEntry("object", RawNames(k)[2],
               RcDict(<< <<"Hydrogenation", 300>>, <<"Cross-Coupling", 800>> >>)),
      RawEntry("object", RawNames(k)[3], RcList(<<900, 1700, 300>>)),
      RawEntry("object", RawNames(k)[4], RcStr("high", FALSE, <<>>)),
      RawEntry("object", RawNames(k)[5], NoRc),
      RawEntry("object", RawNames(k)[6], [RcList(<<900, 800>>) EXCEPT !.bad = TRUE]),
      RawEntry("object", "", RcList(<<600, 600, 600, 600, 600>>)),
      RawEntry("value", "", NoRc),
      RawEntry("badjson", "", NoRc) }

\* a collection file holds parsed records; a file json.load rejects, or one
\* that holds no list, has none
Sources(k) ==
    LET seqs(S) == UNION {[1..n -> S] : n \in 0..MaxEntries}
    IN  {[shape |-> s, entries |-> e] :
            s \in {"file_list", "file_wrapped"},
            e \in seqs({x \in RawEntries(k) : x.form # "badjson"})}
        \cup {[shape |-> "dir", entries |-> e] : e \in seqs(RawEntries(k))}
        \cup {[shape |-> s, entries |-> <<>>] : s \in {"file_badjson", "file_other", "missing"}}

InitLoad ==
    /\ lkind \in {"bases", "solvents"}
    /\ source \in Sources(lkind)
    /\ table = <<>>
    /\ origin = "none"
    /\ lpc = "ready"
    /\ BlendIdle /\ ScoreIdle /\ ExportIdle /\ LaterIdle

LoadBases ==
    /\ lpc = "ready" /\ lkind = "bases"
    /\ table' = CreateBaseDataframe(source).rows
    /\ origin' = CreateBaseDataframe(source).origin
    /\ lpc' = "done"
    /\ UNCHANGED <<source, lkind>>
    /\ UNCHANGED <<blendVars, scoreVars, exportVars, laterVars>>

LoadSolvents ==
    /\ lpc = "ready" /\ lkind = "solvents"
    /\ table' = CreateSolventDataframe(source).rows
    /\ origin' = CreateSolventDataframe(source).origin
    /\ lpc' = "done"
    /\ UNCHANGED <<source, lkind>>
    /\ UNCHANGED <<blendVars, scoreVars, exportVars, laterVars>>

NextLoad == LoadBases \/ LoadSolvents

SpecLoad == InitLoad /\ [][NextLoad]_vars

(***************************************************************************)
(* Claims about repository loading.                                        *)
(***************************************************************************)
LoadDone == lpc = "done"
FailsToParse(entry) == entry.form = "badjson" \/ NormalizeRaises(entry)
SourceHasRecords == source.shape \in {"file_list", "file_wrapped", "dir"}

\* C8: after a repository is loaded from an external source, every kept
\* record carries a reaction-compatibility vector of exactly five scores,
\* each within [0,1], whatever shape and numbers the source supplied.
C8_FiveScoresInUnitInterval ==
    (LoadDone /\ origin = "json")
    => \A i \in 1..Len(table) :
          /\ table[i].rc.numeric
          /\ Len(table[i].rc.scores) = 5
          /\ \A s \in 1..Len(table[i].rc.scores) :
                table[i].rc.scores[s] >= 0 /\ table[i].rc.scores[s] <= 1000

\* C9: when a single record of a source fails to parse, only that record is
\* skipped: every other record of the source is still loaded.
C9_OnlyBadRecordSkipped ==
    ( /\ LoadDone /\ SourceHasRecords
      /\ Cardinality({i \in 1..Len(source.entries) : FailsToParse(source.entries[i])}) = 1 )
    => \A i \in 1..Len(source.entries) :
          (~FailsToParse(source.entries[i]) /\ source.entries[i].name # "")
          => \E j \in 1..Len(table) : table[j].name = source.entries[i].name

(***************************************************************************)
(* The aggregator's export run: run_and_export_ullmann.                    *)
(*                                                                         *)
(* A summary is reduced to the rows it was computed from and its           *)
(* generated_at stamp.  The clock counts ticks of TicksPerSecond to the    *)
(* second; a version directory is named by the second.  Each runner is a   *)
(* process that calls run_and_export_ullmann against the same output       *)
(* directory; its file operations interleave with the other runner's.      *)
(***************************************************************************)
TicksPerSecond == 2

\* datetime.utcnow().strftime("%Y%m%d-%H%M%S")
Timestamp(c) == c \div TicksPerSecond

Summary(rows, generated_at) == [present |-> TRUE, rows |-> rows, generated_at |-> generated_at]

\* a run is in progress between its start and its return or raise
InProgress(p) == run[p].pc \in {"aggregated", "dir_made", "summary_written", "csvs_written"}

\* resolve_dataset_path("Ullmann"), then either the raise or
\* adapt_dataset_for_type and aggregate_ullmann
StartRun(p) ==
    /\ run[p].pc = "idle"
    /\ IF dataset = "missing"
       THEN run' = [run EXCEPT ![p].pc = "raised"]
       ELSE run' = [run EXCEPT ![p].pc = "aggregated",
                               ![p].summary = Summary(dataset, clock)]
    /\ overlapped' = (overlapped \/ \E q \in Runners \ {p} : InProgress(q))
    /\ UNCHANGED <<dataset, clock, versions, latest>>
    /\ UNCHANGED <<blendVars, scoreVars, loadVars, laterVars>>

\* ts = utcnow().strftime(...); os.makedirs(version_dir, exist_ok=True)
MakeVersionDir(p) ==
    /\ run[p].pc = "aggregated"
    /\ run' = [run EXCEPT ![p].pc = "dir_made", ![p].ts = Timestamp(clock)]
    /\ versions' = [versions EXCEPT ![Timestamp(clock)].dir = TRUE]
    /\ UNCHANGED <<dataset, clock, latest, overlapped>>
    /\ UNCHANGED <<blendVars, scoreVars, loadVars, laterVars>>

\* mutant: summary.json is not written
WriteSummary_Skipped(p) ==
    /\ run[p].pc = "dir_made"
    /\ run' = [run EXCEPT ![p].pc = "summary_written"]
    /\ UNCHANGED <<dataset, clock, versions, latest, overlapped>>
    /\ UNCHANGED <<blendVars, scoreVars, loadVars, laterVars>>

\* json.dump(summary, open(version_dir/summary.json, "w"))
WriteSummary(p) ==
    /\ run[p].pc = "dir_made"
    /\ versions' = [versions EXCEPT ![run[p].ts].summary = run[p].summary]
    /\ run' = [run EXCEPT ![p].pc = "summary_written"]
    /\ UNCHANGED <<dataset, clock, latest, overlapped>>
    /\ UNCHANGED <<blendVars, scoreVars, loadVars, laterVars>>

\* _write_csvs(summary, version_dir)
WriteCsvs(p) ==
    /\ run[p].pc = "summary_written"
    /\ run' = [run EXCEPT ![p].pc = "csvs_written"]
    /\ UNCHANGED <<dataset, clock, versions, latest, overlapped>>
    /\ UNCHANGED <<blendVars, scoreVars, loadVars, laterVars>>

\* json.dump(summary, open(latest_path, "w")); return latest_path
WriteLatest(p) ==
    /\ run[p].pc = "csvs_written"
    /\ latest' = run[p].summary
    /\ run' = [run EXCEPT ![p].pc = "done"]
    /\ UNCHANGED <<dataset, clock, versions, overlapped>>
    /\ UNCHANGED <<blendVars, scoreVars, loadVars, laterVars>>

\* the caller has the return value or the exception and may call again
Finish(p) ==
    /\ run[p].pc \in {"done", "raised"}
    /\ run' = [run EXCEPT ![p] = IdleRun]
    /\ UNCHANGED <<dataset, clock, versions, latest, overlapped>>
    /\ UNCHANGED <<blendVars, scoreVars, loadVars, laterVars>>

\* time passes
Tick ==
    /\ clock < MaxClock
    /\ clock' = clock + 1
    /\ UNCHANGED <<dataset, versions, latest, run, overlapped>>
    /\ UNCHANGED <<blendVars, scoreVars, loadVars, laterVars>>

Datasets == {"missing", "rows"}

InitExport ==
    /\ dataset \in Datasets
    /\ clock = 0
    /\ versions = [s \in 0..MaxClock |-> NoDir]
    /\ latest = NoFile
    /\ run = [p \in Runners |-> IdleRun]
    /\ overlapped = FALSE
    /\ BlendIdle /\ ScoreIdle /\ LoadIdle /\ LaterIdle

NextExport ==
    \/ \E p \in Runners :
          \/ StartRun(p) \/ MakeVersionDir(p) \/ WriteSummary(p)
          \/ WriteCsvs(p) \/ WriteLatest(p) \/ Finish(p)
    \/ Tick

SpecExport == InitExport /\ [][NextExport]_vars

(***************************************************************************)
(* Claims about missing sources.                                           *)
(***************************************************************************)
\* C10: when no repository or dataset source is found, the component that
\* needs it degrades to an empty repository, an empty result or a curated
\* fallback and returns normally: no exception reaches the caller, here the
\* caller of the aggregator's export run.
C10_MissingSourceNeverRaises ==
    dataset = "missing" => \A p \in Runners : run[p].pc # "raised"

\* the runs follow one another: no two are in progress at once
OneAtATime == Cardinality({p \in Runners : InProgress(p)}) <= 1

\* C17: for any sequence of export runs against the same output directory,
\* each run creates its own versioned snapshot and the versioned summary an
\* earlier run wrote is never modified or overwritten by a later run; only
\* latest.json is overwritten.
C17_VersionedSummaryImmutable ==
    [][(OneAtATime /\ OneAtATime')
       => \A s \in DOMAIN versions :
             versions[s].summary.present => versions'[s].summary = versions[s].summary]_vars

(***************************************************************************)
(* The combination ranker: _create_combined_conditions.                    *)
(*                                                                         *)
(* Compatibility scores and bonuses are thousandths.  The unrounded        *)
(* final_score (l + s)/2 + bonus is kept as the integer l + s + 2*bonus,   *)
(* a number of 1/2000.                                                     *)
(***************************************************************************)
\* _calculate_synergy_bonus: synergies, as <<reaction_type, ligand, solvent, bonus>>
synergies ==
    << <<"Cross-Coupling", "SPhos", "DMF", 100>>,
       <<"Cross-Coupling", "XPhos", "THF", 100>>,
       <<"Cross-Coupling", "RuPhos", "DMF", 80>>,
       <<"Cross-Coupling", "BINAP", "Toluene", 50>>,
       <<"Cross-Coupling", "PPh3", "THF", 50>>,
       <<"Ullmann", "1,10-Phenanthroline", "DMSO", 100>>,
       <<"Ullmann", "2,2'-Bipyridine", "DMSO", 100>>,
       <<"Ullmann", "L-Proline", "DMSO", 80>>,
       <<"Ullmann", "Ethylenediamine", "DMF", 80>>,
       <<"Ullmann", "DMEDA", "Toluene", 60>>,
       <<"Hydrogenation", "BINAP", "Ethanol", 150>>,
       <<"Hydrogenation", "Tol-BINAP", "Methanol", 150>>,
       <<"Hydrogenation", "PPh3", "Ethanol", 80>>,
       <<"Hydrogenation", "DPPF", "Ethanol", 80>>,
       <<"Metathesis", "IPr", "Dichloromethane", 120>>,
       <<"Metathesis", "IMes", "Dichloromethane", 120>>,
       <<"Metathesis", "SIPr", "Toluene", 100>> >>

\* synergies.get(reaction_type, {}).get((ligand, solvent), 0.0)
CalculateSynergyBonus(ligand, solvent, reaction_type) ==
    IF \E i \in 1..Len(synergies) :
          synergies[i][1] = reaction_type /\ synergies[i][2] = ligand /\ synergies[i][3] = solvent
    THEN LET i == CHOOSE i \in 1..Len(synergies) :
                     /\ synergies[i][1] = reaction_type
                     /\ synergies[i][2] = ligand
                     /\ synergies[i][3] = solvent
         IN  synergies[i][4]
    ELSE 0

\* the final scores that lie halfway between two thousandths and whose
\* float lies below the halfway point, among those the model's inputs give
\* (0.6805, 0.8005, 0.8805, 0.9005, 0.9205): round(x, 3) takes them down
HalvesBelow == {1361, 1601, 1761, 1801, 1841}

\* round(final_score, 3), of a final score in 1/2000, in thousandths
Round3(final2) ==
    IF final2 % 2 = 0 \/ final2 \in HalvesBelow
    THEN final2 \div 2
    ELSE final2 \div 2 + 1

\* mutant: a final score of exactly 0.8 or 0.6 already reaches the higher tier
Confidence_AtLeast(final2) ==
    IF final2 >= 1600 THEN "High" ELSE IF final2 >= 1200 THEN "Medium" ELSE "Low"

\* 'High' if final_score > 0.8 else 'Medium' if final_score > 0.6 else 'Low'
Confidence(final2) ==
    IF final2 > 1600 THEN "High" ELSE IF final2 > 1200 THEN "Medium" ELSE "Low"

\* the record appended for ligand i and solvent j
CombinedEntry(ligand, solvent, reaction_type, rank) ==
    LET synergy_bonus == CalculateSynergyBonus(ligand.ligand, solvent.solvent, reaction_type)
        final2 == ligand.compatibility_score + solvent.compatibility_score + 2 * synergy_bonus
    IN  [ rank                      |-> rank,
          ligand                    |-> ligand.ligand,
          ligand_compatibility      |-> ligand.compatibility_score,
          solvent                   |-> solvent.solvent,
          solvent_abbreviation      |-> solvent.abbreviation,
          solvent_compatibility     |-> solvent.compatibility_score,
          combined_score            |-> Round3(final2),
          synergy_bonus             |-> synergy_bonus,
          recommendation_confidence |-> Confidence(final2) ]

\* the two nested loops over top_ligands and top_solvents
CrossProduct(top_ligands, top_solvents, reaction_type) ==
    [k \in 1..(Len(top_ligands) * Len(top_solvents)) |->
        CombinedEntry(top_ligands[((k - 1) \div Len(top_solvents)) + 1],
                      top_solvents[((k - 1) % Len(top_solvents)) + 1],
                      reaction_type, k)]

\* mutant: the pairs stay in cross-product order
SortByCombinedScore_Unsorted(pairs) == pairs

\* combined.sort(key=lambda x: x['combined_score'], reverse=True)
SortByCombinedScore(pairs) ==
    SortDesc(pairs, [k \in 1..Len(pairs) |-> pairs[k].combined_score])

\* _create_combined_conditions
CreateCombinedConditions(ligs, solvs, reaction_type) ==
    LET top_ligands == SliceTo(ligs, 3)
        top_solvents == SliceTo(solvs, 3)
    IN  SliceTo(SortByCombinedScore(CrossProduct(top_ligands, top_solvents, reaction_type)), 5)

(***************************************************************************)
(* The inputs of the combination ranker.                                   *)
(***************************************************************************)
LigandNames == <<"XPhos", "PPh3", "1,10-Phenanthroline", "BINAP">>
SolventNames == <<"THF", "DMSO", "Toluene", "DMF">>
LigandScores == {900, 901}
SolventScores == {700, 300}
CombineTypes == {"Cross-Coupling", "Ullmann", "Carbonylation"}

\* sc gives the picked positions of names their scores
RECURSIVE PickFrom(_, _, _)
PickFrom(names, sc, i) ==
    IF i > Len(names) THEN <<>>
    ELSE (IF i \in DOMAIN sc THEN <<[name |-> names[i], compatibility_score |-> sc[i]]>>
          ELSE <<>>) \o PickFrom(names, sc, i + 1)

\* recommendation lists of at most MaxPicks distinct names
PickLists(names, scores) ==
    {PickFrom(names, sc, 1) :
        sc \in UNION {[S -> scores] :
                        S \in {T \in SUBSET (1..Len(names)) : Cardinality(T) <= MaxPicks}}}

LigandRecs ==
    {[i \in 1..Len(p) |-> [ligand |-> p[i].name, compatibility_score |-> p[i].compatibility_score]] :
        p \in PickLists(LigandNames, LigandScores)}

SolventRecs ==
    {[i \in 1..Len(p) |-> [solvent |-> p[i].name, abbreviation |-> p[i].name,
                           compatibility_score |-> p[i].compatibility_score]] :
        p \in PickLists(SolventNames, SolventScores)}

InitCombine ==
    /\ ligands \in LigandRecs
    /\ solvents \in SolventRecs
    /\ ctype \in CombineTypes
    /\ combined = <<>>
    /\ cpc = "ready"
    /\ CombineAlone

CreateCombined ==
    /\ cpc = "ready"
    /\ combined' = CreateCombinedConditions(ligands, solvents, ctype)
    /\ cpc' = "done"
    /\ UNCHANGED <<ligands, solvents, ctype>>
    /\ UNCHANGED combineRest

NextCombine == CreateCombined

SpecCombine == InitCombine /\ [][NextCombine]_vars

(***************************************************************************)
(* Claims about the combination ranker.                                    *)
(***************************************************************************)
CombineDone == cpc = "done"
\* the pairs of the first three ligands and the first three solvents
PairsOffered == (1..Min(3, Len(ligands))) \X (1..Min(3, Len(solvents)))
\* (ligand_score + solvent_score)/2 + synergy_bonus of a pair, in 1/2000
ExactScore(p) ==
    ligands[p[1]].compatibility_score + solvents[p[2]].compatibility_score
    + 2 * CalculateSynergyBonus(ligands[p[1]].ligand, solvents[p[2]].solvent, ctype)
\* the same rounded to three decimals, in thousandths
ReportedScore(p) == Round3(ExactScore(p))
\* the place of a pair in the cross product
CrossOrder(p) == (p[1] - 1) * Min(3, Len(solvents)) + p[2]
\* the pair a returned entry was made from
PairOf(e) ==
    CHOOSE p \in PairsOffered :
        ligands[p[1]].ligand = e.ligand /\ solvents[p[2]].solvent = e.solvent
IsOfferedPair(e) ==
    \E p \in PairsOffered :
        ligands[p[1]].ligand = e.ligand /\ solvents[p[2]].solvent = e.solvent
PairsReturned == {PairOf(combined[k]) : k \in 1..Len(combined)}
\* the result is the at most 5 best pairs by key, in descending order of
\* key, equal keys in cross-product order
TopFiveBy(key) ==
    /\ Len(combined) = Min(5, Cardinality(PairsOffered))
    /\ \A k \in 1..Len(combined) : IsOfferedPair(combined[k])
    /\ Cardinality(PairsReturned) = Len(combined)
    /\ \A k \in 1..Len(combined) : \A p \in PairsOffered \ PairsReturned :
          \/ key[PairOf(combined[k])] > key[p]
          \/ key[PairOf(combined[k])] = key[p] /\ CrossOrder(PairOf(combined[k])) < CrossOrder(p)
    /\ \A k, l \in 1..Len(combined) :
          k < l => \/ key[PairOf(combined[k])] > key[PairOf(combined[l])]
                   \/ /\ key[PairOf(combined[k])] = key[PairOf(combined[l])]
                      /\ CrossOrder(PairOf(combined[k])) < CrossOrder(PairOf(combined[l]))

\* C13 as claimed: the ranker pairs the first at most 3 ligands with the
\* first at most 3 solvents and returns at most 5 of those pairs, the ones
\* with the highest (ligand_score + solvent_score)/2 + synergy_bonus, in
\* descending order of that score, equal scores in cross-product order.
C13_TopFiveByExactScore ==
    CombineDone => TopFiveBy([p \in PairsOffered |-> ExactScore(p)])

\* C13 as amended: the same with the score rounded to three decimals (the
\* reported combined_score) as the ranking key: pairs whose rounded scores
\* are equal keep their cross-product order.
C13_TopFiveByReportedScore ==
    CombineDone
    => /\ TopFiveBy([p \in PairsOffered |-> ReportedScore(p)])
       /\ \A k \in 1..Len(combined) :
             combined[k].combined_score = ReportedScore(PairOf(combined[k]))

\* C13's case: more than five pairs were offered, a pair with a synergy
\* bonus moved up, and two returned pairs with the same rounded score stand
\* in cross-product order against their unrounded scores
C13_Witness ==
    /\ CombineDone /\ Cardinality(PairsOffered) > 5 /\ Len(combined) = 5
    /\ combined[1].synergy_bonus > 0 /\ combined[1].rank > 1
    /\ \E k \in 1..4 :
          /\ combined[k].combined_score = combined[k + 1].combined_score
          /\ ExactScore(PairOf(combined[k])) < ExactScore(PairOf(combined[k + 1]))

\* C14 as claimed: a returned condition is High exactly when its reported
\* combined score is > 0.8, Medium exactly when it is > 0.6 and <= 0.8, Low
\* otherwise.
C14_TierFromReportedScore ==
    CombineDone
    => \A k \in 1..Len(combined) :
          combined[k].recommendation_confidence =
              (IF combined[k].combined_score > 800 THEN "High"
               ELSE IF combined[k].combined_score > 600 THEN "Medium" ELSE "Low")

\* C14 as amended: the tier is High exactly when the unrounded score
\* (ligand_score + solvent_score)/2 + synergy_bonus is > 0.8, Medium exactly
\* when it is > 0.6 and <= 0.8, Low otherwise.
C14_TierFromUnroundedScore ==
    CombineDone
    => \A k \in 1..Len(combined) :
          combined[k].recommendation_confidence =
              (IF ExactScore(PairOf(combined[k])) > 1600 THEN "High"
               ELSE IF ExactScore(PairOf(combined[k])) > 1200 THEN "Medium" ELSE "Low")

\* C14's case: a condition reported with 0.8 whose unrounded score is
\* 0.8005, beside a Medium and a Low one
C14_Witness ==
    /\ CombineDone
    /\ \E k \in 1..Len(combined) :
          /\ combined[k].combined_score = 800
          /\ ExactScore(PairOf(combined[k])) = 1601
          /\ combined[k].recommendation_confidence = "High"
    /\ \E k \in 1..Len(combined) : combined[k].recommendation_confidence = "Medium"
    /\ \E k \in 1..Len(combined) : combined[k].recommendation_confidence = "Low"

(***************************************************************************)
(* The normalizer: analytics/normalization.py.                             *)
(*                                                                         *)
(* A synonym table is the sequence of its <<key, synonyms>> items in       *)
(* insertion order.                                                        *)
(***************************************************************************)
BASE_SYNONYMS ==
    << <<"k2co3", <<"potassium carbonate", "k_2co_3", "potassium carbonate (k2co3)",
                    "potassiumcarbonate">> >>,
       <<"cs2co3", <<"cesium carbonate", "cesium carbonate (cs2co3)", "caesium carbonate">> >>,
       <<"na2co3", <<"sodium carbonate", "sodium carbonate (na2co3)">> >>,
       <<"kotbu", <<"potassium tert-butoxide", "potassium t-butoxide", "t-buok", "buok",
                    "tbuok">> >>,
       <<"naotbu", <<"sodium tert-butoxide", "sodium t-butoxide">> >>,
       <<"k3po4", <<"tripotassium phosphate", "potassium phosphate", "kpo4",
                    "tripotassiumphosphate">> >>,
       <<"koac", <<"potassium acetate", "k acetate">> >>,
       <<"naome", <<"sodium methoxide", "na ome">> >>,
       <<"koh", <<"potassium hydroxide">> >>,
       <<"naoh", <<"sodium hydroxide">> >>,
       <<"tea", <<"triethylamine", "et3n">> >>,
       <<"dipea", <<"diisopropylethylamine", "hunig's base">> >> >>

SOLVENT_SYNONYMS ==
    << <<"dmf", <<"n,n-dimethylformamide", "dimethylformamide">> >>,
       <<"dmso", <<"dimethyl sulfoxide", "dms o", "dm s o", "dimethylsulfoxide",
                   "dimethyl sulphoxide">> >>,
       <<"toluene", <<"phme">> >>,
       <<"meoh", <<"methanol">> >>,
       <<"etoh", <<"ethanol">> >>,
       <<"acn", <<"acetonitrile", "me cn", "mecn", "me-c n">> >>,
       <<"nmp", <<"n-methyl-2-pyrrolidone", "n-methylpyrrolidone">> >> >>

LIGAND_SYNONYMS ==
    << <<"l-proline", <<"l proline", "proline">> >>,
       <<"phen", <<"1,10-phenanthroline", "o-phenanthroline", "phenanthroline">> >>,
       <<"bipy", <<"2,2'-bipyridine", "bipyridine">> >>,
       <<"pPh3", <<"triphenylphosphine", "p(ph)3", "p ph3">> >>,
       <<"xphos", <<"x-phos">> >> >>

METAL_SYNONYMS ==
    << <<"cu", <<"copper", "cui", "cu(i)", "cu(ii)", "cuprous iodide", "cupric acetate">> >>,
       <<"pd", <<"palladium">> >>,
       <<"ni", <<"nickel">> >> >>

\* unicodedata.normalize("NFKC", .) of one character: the micro sign U+00B5
\* becomes the Greek letter mu U+03BC, superscript two becomes 2
NFKCMap == ("µ" :> "μ") @@ ("²" :> "2")

RECURSIVE NFKC(_)
NFKC(s) ==
    IF s = "" THEN ""
    ELSE (IF CharAt(s, 1) \in DOMAIN NFKCMap THEN NFKCMap[CharAt(s, 1)] ELSE CharAt(s, 1))
             \o NFKC(SubSeq(s, 2, Len(s)))

\* str.casefold() of a character outside ASCII: the micro sign folds to the
\* Greek letter mu as well, an accented capital to its small letter
CasefoldMap == ("µ" :> "μ") @@ ("Ü" :> "ü") @@ ("É" :> "é")

\* str.casefold()
RECURSIVE Casefold(_)
Casefold(s) ==
    IF s = "" THEN ""
    ELSE (IF CharAt(s, 1) \in DOMAIN CasefoldMap THEN CasefoldMap[CharAt(s, 1)]
          ELSE LowerChar(CharAt(s, 1)))
             \o Casefold(SubSeq(s, 2, Len(s)))

\* s.replace(old, new), leftmost occurrences first
RECURSIVE Replace(_, _, _)
Replace(s, old, new) ==
    IF Len(s) < Len(old) THEN s
    ELSE IF SubSeq(s, 1, Len(old)) = old
         THEN new \o Replace(SubSeq(s, Len(old) + 1, Len(s)), old, new)
         ELSE CharAt(s, 1) \o Replace(SubSeq(s, 2, Len(s)), old, new)

\* [a-z0-9]
AlnumChars ==
    {"a", "b", "c", "d", "e", "f", "g", "h", "i", "j", "k", "l", "m", "n", "o", "p", "q",
     "r", "s", "t", "u", "v", "w", "x", "y", "z",
     "0", "1", "2", "3", "4", "5", "6", "7", "8", "9"}

\* _RE_NON_ALNUM.sub(" ", s): every run of other characters becomes one blank
RECURSIVE SubNonAlnum(_)
SubNonAlnum(s) ==
    IF s = "" THEN ""
    ELSE IF CharAt(s, 1) \in AlnumChars
         THEN CharAt(s, 1) \o SubNonAlnum(SubSeq(s, 2, Len(s)))
         ELSE IF Len(s) > 1 /\ CharAt(s, 2) \notin AlnumChars
              THEN SubNonAlnum(SubSeq(s, 2, Len(s)))
              ELSE " " \o SubNonAlnum(SubSeq(s, 2, Len(s)))

\* canonicalize, of a token that is not None
Canonicalize(token) ==
    LET s1 == Strip(Casefold(NFKC(token)))
        s2 == Replace(s1, "µ", "u")
        s3 == SubNonAlnum(s2)
    IN  RemoveSpaces(s3)

\* mutant: only the keys are compared, the synonyms never
SynonymLookup_KeysOnly(tok, tbl) ==
    LET ctok == Canonicalize(tok)
    IN  IF \E i \in 1..Len(tbl) : ctok = tbl[i][1]
        THEN tbl[CHOOSE i \in 1..Len(tbl) : ctok = tbl[i][1]][1]
        ELSE ctok

\* the loop of synonym_lookup over table.items(), ctok being canonicalize(tok)
LookupCanonical(ctok, tbl) ==
    LET hit(i) == \/ ctok = tbl[i][1]
                  \/ \E j \in 1..Len(tbl[i][2]) : Canonicalize(tbl[i][2][j]) = ctok
    IN  IF \E i \in 1..Len(tbl) : hit(i)
        THEN tbl[CHOOSE i \in 1..Len(tbl) : hit(i) /\ \A h \in 1..(i - 1) : ~hit(h)][1]
        ELSE ctok

\* synonym_lookup: the first item whose key is ctok or one of whose
\* synonyms canonicalizes to ctok
SynonymLookup(tok, tbl) == LookupCanonical(Canonicalize(tok), tbl)

map_base(name) == SynonymLookup(name, BASE_SYNONYMS)
map_solvent(name) == SynonymLookup(Replace(name, "DMS O", "DMSO"), SOLVENT_SYNONYMS)
map_ligand(name) == SynonymLookup(name, LIGAND_SYNONYMS)
map_metal(name) == SynonymLookup(name, METAL_SYNONYMS)

(***************************************************************************)
(* The inputs of the normalizer.                                           *)
(***************************************************************************)
MapFunctions == {"map_base", "map_solvent", "map_ligand", "map_metal"}

TableOf(f) ==
    CASE f = "map_base"    -> BASE_SYNONYMS
      [] f = "map_solvent" -> SOLVENT_SYNONYMS
      [] f = "map_ligand"  -> LIGAND_SYNONYMS
      [] f = "map_metal"   -> METAL_SYNONYMS

KeysOf(tbl) == {tbl[i][1] : i \in 1..Len(tbl)}
SynonymsOf(tbl, i) == {tbl[i][2][j] : j \in 1..Len(tbl[i][2])}
AliasesOf(tbl) == UNION {SynonymsOf(tbl, i) : i \in 1..Len(tbl)}

\* names as datasets write them: other case, blanks, punctuation, parts of a
\* synonym, names no table has
OtherTokens ==
    {"K3PO4", "K2CO3", " K 2 CO 3 ", "Potassium Carbonate", "potassium", "carbonate",
     "k2co", "potassium carbonate anhydrous", "DMS O", "DMSO", "dimethyl", "DMF",
     "Dimethylformamide", "N,N-Dimethylformamide ", "PPh3", "L-Proline", "1,10-Phenanthroline",
     "phenanthrolin", "CuI", "Cu(OAc)2", "THF", "", "-"}

Tokens == OtherTokens \cup UNION {KeysOf(TableOf(f)) \cup AliasesOf(TableOf(f)) : f \in MapFunctions}

InitNormalize ==
    /\ nfunc \in MapFunctions
    /\ ntoken \in Tokens
    /\ nresult = ""
    /\ npc = "ready"
    /\ NormalizeAlone

MapBase ==
    /\ npc = "ready" /\ nfunc = "map_base"
    /\ nresult' = map_base(ntoken)
    /\ npc' = "done"
    /\ UNCHANGED <<ntoken, nfunc>>
    /\ UNCHANGED normalizeRest

MapSolvent ==
    /\ npc = "ready" /\ nfunc = "map_solvent"
    /\ nresult' = map_solvent(ntoken)
    /\ npc' = "done"
    /\ UNCHANGED <<ntoken, nfunc>>
    /\ UNCHANGED normalizeRest

MapLigand ==
    /\ npc = "ready" /\ nfunc = "map_ligand"
    /\ nresult' = map_ligand(ntoken)
    /\ npc' = "done"
    /\ UNCHANGED <<ntoken, nfunc>>
    /\ UNCHANGED normalizeRest

MapMetal ==
    /\ npc = "ready" /\ nfunc = "map_metal"
    /\ nresult' = map_metal(ntoken)
    /\ npc' = "done"
    /\ UNCHANGED <<ntoken, nfunc>>
    /\ UNCHANGED normalizeRest

NextNormalize == MapBase \/ MapSolvent \/ MapLigand \/ MapMetal

SpecNormalize == InitNormalize /\ [][NextNormalize]_vars

(***************************************************************************)
(* Claims about the normalizer.                                            *)
(***************************************************************************)
NormalizeDone == npc = "done"
\* the token synonym_lookup is called with
LookupToken == IF nfunc = "map_solvent" THEN Replace(ntoken, "DMS O", "DMSO") ELSE ntoken
\* the keys that the token matches exactly
MatchingKeys ==
    LET tbl == TableOf(nfunc)
        ctok == Canonicalize(LookupToken)
    IN  {tbl[i][1] : i \in {h \in 1..Len(tbl) :
            \/ ctok = tbl[h][1]
            \/ \E v \in SynonymsOf(tbl, h) : Canonicalize(v) = ctok}}

\* C20: synonym_lookup(token, table) returns key k whenever the canonicalized
\* token equals k or the canonicalization of a synonym listed under k, and
\* otherwise the canonicalized token unchanged, never mapping on a partial
\* match; every alias and every key of the built-in tables maps to its key
\* (map_base("potassium carbonate") = "k2co3", map_base("K3PO4") = "k3po4",
\* map_solvent("DMS O") = map_solvent("dmso")).
C20_ExactSynonymLookup ==
    NormalizeDone
    => /\ \A k \in MatchingKeys : nresult = k
       /\ MatchingKeys = {} => nresult = Canonicalize(LookupToken)
       /\ \A i \in 1..Len(TableOf(nfunc)) :
             ntoken \in {TableOf(nfunc)[i][1]} \cup SynonymsOf(TableOf(nfunc), i)
             => nresult = TableOf(nfunc)[i][1]
       /\ (nfunc = "map_base" /\ ntoken = "potassium carbonate") => nresult = "k2co3"
       /\ (nfunc = "map_base" /\ ntoken = "K3PO4") => nresult = "k3po4"
       /\ (nfunc = "map_solvent" /\ ntoken \in {"DMS O", "dmso"}) => nresult = "dmso"
       /\ (nfunc = "map_base" /\ ntoken \in {"potassium", "carbonate", "k2co",
                                             "potassium carbonate anhydrous"})
          => nresult \notin KeysOf(BASE_SYNONYMS)

\* C20's case: an alias written in another case was mapped to its key
C20_Witness ==
    /\ NormalizeDone /\ nfunc = "map_base"
    /\ ntoken = "Potassium Carbonate" /\ nresult = "k2co3"

(***************************************************************************)
(* The aggregator: aggregate_ullmann.                                      *)
(*                                                                         *)
(* An optional number is <<>> for None and <<v>> for v.  A Counter is a    *)
(* dict in insertion order.  A pct is a number of ten-thousandths.         *)
(***************************************************************************)
None == <<>>
Some(v) == <<v>>

\* str.strip(chars)
RECURSIVE LStripChars(_, _)
LStripChars(s, chars) ==
    IF s # "" /\ CharAt(s, 1) \in chars THEN LStripChars(SubSeq(s, 2, Len(s)), chars) ELSE s

RECURSIVE RStripChars(_, _)
RStripChars(s, chars) ==
    IF s # "" /\ CharAt(s, Len(s)) \in chars
    THEN RStripChars(SubSeq(s, 1, Len(s) - 1), chars) ELSE s

StripChars(s, chars) == RStripChars(LStripChars(s, chars), chars)

\* s.split(sep) for a separator of one character
RECURSIVE Split(_, _)
Split(s, sep) ==
    IF \E i \in 1..Len(s) : CharAt(s, i) = sep
    THEN LET i == CHOOSE i \in 1..Len(s) :
                     CharAt(s, i) = sep /\ \A j \in 1..(i - 1) : CharAt(s, j) # sep
         IN  <<SubSeq(s, 1, i - 1)>> \o Split(SubSeq(s, i + 1, Len(s)), sep)
    ELSE <<s>>

\* mutant: every occurrence is kept
Dedupe_KeepAll(seq) == seq

\* the first occurrence of every element, in order
RECURSIVE Dedupe(_)
Dedupe(seq) ==
    IF seq = <<>> THEN <<>>
    ELSE LET front == Dedupe(SubSeq(seq, 1, Len(seq) - 1))
             last == seq[Len(seq)]
         IN  IF last = "" \/ InSeq(front, last) THEN front ELSE Append(front, last)

MapByKind(p, field) ==
    CASE field = "base"    -> map_base(p)
      [] field = "solvent" -> map_solvent(p)
      [] field = "ligand"  -> map_ligand(p)
      [] field = "metal"   -> map_metal(p)
      [] OTHER             -> Canonicalize(p)

\* _normalize_field: normed, the mapped parts before the duplicates go
Normed(name, field) ==
    IF name = "" THEN <<>>
    ELSE LET s == StripChars(Strip(name), {"[", "]"})
             pieces == SelectSeq(Split(s, ","), LAMBDA p : Strip(p) # "")
             parts == [i \in 1..Len(pieces) |->
                          StripChars(StripChars(Strip(pieces[i]), {"\""}), {"'"})]
             used == SelectSeq(IF parts # <<>> THEN parts ELSE <<s>>, LAMBDA p : p # "")
         IN  [i \in 1..Len(used) |-> MapByKind(used[i], field)]

\* _normalize_field
NormalizeField(name, field) == Dedupe(Normed(name, field))

\* counter[t] += 1
Inc(counter, t) == DictPut(counter, t, DictGet(counter, t, 0) + 1)

RECURSIVE IncAll(_, _)
IncAll(counter, toks) ==
    IF toks = <<>> THEN counter ELSE IncAll(Inc(counter, Head(toks)), Tail(toks))

\* for a in as: for b in bs: counter[(a, b)] += 1
Pairs(as, bs) ==
    [k \in 1..(Len(as) * Len(bs)) |->
        <<as[((k - 1) \div Len(bs)) + 1], bs[((k - 1) % Len(bs)) + 1]>>]

\* sorted(arr)
SortAsc(arr) == SortDesc(arr, [i \in 1..Len(arr) |-> 0 - arr[i]])

\* mutant: the index is rounded up
Pctile_Ceil(arr, q) ==
    IF arr = <<>> THEN None
    ELSE Some(SortAsc(arr)[(((Len(arr) - 1) * q + 99) \div 100) + 1])

\* _pctile, q in hundredths: arr_sorted[int((len(arr_sorted) - 1) * q)]
Pctile(arr, q) ==
    IF arr = <<>> THEN None
    ELSE Some(SortAsc(arr)[(((Len(arr) - 1) * q) \div 100) + 1])

\* _winsorize
Winsorize(arr) ==
    IF arr = <<>> THEN arr
    ELSE LET s == SortAsc(arr)
             lo_v == Pctile(s, 5)[1]
             hi_v == Pctile(s, 95)[1]
         IN  [i \in 1..Len(s) |->
                 IF s[i] < lo_v THEN lo_v ELSE IF s[i] > hi_v THEN hi_v ELSE s[i]]

\* one entry of numeric_stats
NumericStats(arr) ==
    LET arr_w == Winsorize(arr)
    IN  [median |-> Pctile(arr_w, 50), p25 |-> Pctile(arr_w, 25), p75 |-> Pctile(arr_w, 75),
         n |-> Len(arr)]

\* _top
Top(counter, total) ==
    IF total <= 0 THEN <<>>
    ELSE LET common == SortDesc(counter, [i \in 1..Len(counter) |-> counter[i][2]])
         IN  [i \in 1..Len(common) |->
                 [name |-> common[i][1], count |-> common[i][2],
                  pct |-> RoundDiv(common[i][2] * 10000, total)]]

\* the co-occurrence list made of a counter of pairs
CoList(counter, total_rows) ==
    LET items == SortDesc(counter, [i \in 1..Len(counter) |-> counter[i][2]])
    IN  [i \in 1..Len(items) |->
            [a |-> items[i][1][1], b |-> items[i][1][2], count |-> items[i][2],
             pct |-> IF total_rows # 0 THEN RoundDiv(items[i][2] * 10000, total_rows) ELSE 0]]

\* the strings the rows of the model carry in their reagent fields
MetalStrings == <<"CuI", "Cu(I)", "", "Pd">>
LigandStrings == <<"1,10-Phenanthroline", "L-Proline", "", "['phen', 'Phenanthroline']">>
BaseStrings == <<"K2CO3", "Cs2CO3", "potassium carbonate">>
SolventStrings == <<"DMSO", "DMF, DMSO", "['DMSO', 'DMS O']", "">>
TypeStrings == <<"Ullmann", "C-N Coupling - Ullmann", "Suzuki">>

FieldStrings(field) ==
    CASE field = "metal"   -> {MetalStrings[i] : i \in 1..Len(MetalStrings)}
      [] field = "ligand"  -> {LigandStrings[i] : i \in 1..Len(LigandStrings)}
      [] field = "base"    -> {BaseStrings[i] : i \in 1..Len(BaseStrings)}
      [] field = "solvent" -> {SolventStrings[i] : i \in 1..Len(SolventStrings)}

\* _normalize_field, computed once for each string of the model
NormalizeFieldTable ==
    [field \in {"metal", "ligand", "base", "solvent"} |->
        [s \in FieldStrings(field) |-> NormalizeField(s, field)]]

NormalizeFieldOf(name, field) == NormalizeFieldTable[field][name]

\* 'ullmann' in canonicalize(r.reaction_type)
IsUllmannRow(r) == Contains(Canonicalize(r.reaction_type), "ullmann")

EmptyCounts ==
    [ cnt_metal |-> <<>>, cnt_ligand |-> <<>>, cnt_base |-> <<>>, cnt_solvent |-> <<>>,
      co_lig_sol |-> <<>>, co_base_sol |-> <<>>, co_cat_lig |-> <<>>,
      temps |-> <<>>, times |-> <<>>, yields |-> <<>> ]

\* the counters after one row with the given tokens in its four fields
CountTokens(acc, r, metals_, ligands_, bases_, solvents_) ==
    [ cnt_metal   |-> IncAll(acc.cnt_metal, metals_),
      cnt_ligand  |-> IncAll(acc.cnt_ligand, ligands_),
      cnt_base    |-> IncAll(acc.cnt_base, bases_),
      cnt_solvent |-> IncAll(acc.cnt_solvent, solvents_),
      co_lig_sol  |-> IncAll(acc.co_lig_sol, Pairs(ligands_, solvents_)),
      co_base_sol |-> IncAll(acc.co_base_sol, Pairs(bases_, solvents_)),
      co_cat_lig  |-> IncAll(acc.co_cat_lig, Pairs(metals_, ligands_)),
      temps       |-> acc.temps \o r.temperature_c,
      times       |-> acc.times \o r.time_h,
      yields      |-> acc.yields \o r.yield_pct ]

\* the body of the loop over kept, for one row: its four fields normalized,
\* then counted
CountRow(acc, r) ==
    CountTokens(acc, r, NormalizeFieldOf(r.metal, "metal"), NormalizeFieldOf(r.ligand, "ligand"), NormalizeFieldOf(r.base, "base"), NormalizeFieldOf(r.solvent, "solvent"))

RECURSIVE CountRows(_, _)
CountRows(acc, kept) ==
    IF kept = <<>> THEN acc ELSE CountRows(CountRow(acc, Head(kept)), Tail(kept))

\* the summary aggregate_ullmann makes of the counters c of total_rows kept
\* rows, without its generated_at stamp
SummaryOf(c, total_rows) ==
    [ summary       |-> [total_rows |-> total_rows, analyzed_rows |-> total_rows,
                         generated_at |-> 0],
      top           |-> [metals   |-> Top(c.cnt_metal, total_rows),
                         ligands  |-> Top(c.cnt_ligand, total_rows),
                         bases    |-> Top(c.cnt_base, total_rows),
                         solvents |-> Top(c.cnt_solvent, total_rows),
                         additives |-> <<>>],
      cooccurrence  |-> [ligand_solvent  |-> CoList(c.co_lig_sol, total_rows),
                         base_solvent    |-> CoList(c.co_base_sol, total_rows),
                         catalyst_ligand |-> CoList(c.co_cat_lig, total_rows)],
      numeric_stats |-> [temperature_c |-> NumericStats(c.temps),
                         time_h        |-> NumericStats(c.times),
                         yield_pct     |-> NumericStats(c.yields)] ]

\* temps_w, times_w, yields_w
WinsorizedFrom(c) ==
    [temperature_c |-> Winsorize(c.temps), time_h |-> Winsorize(c.times), yield_pct |-> Winsorize(c.yields)]

\* kept, the rows of an Ullmann type
Kept(rows) == SelectSeq(rows, IsUllmannRow)

\* the counters after the loop over kept
Counts(rows) == CountRows(EmptyCounts, Kept(rows))

\* aggregate_ullmann without its generated_at stamp
AggregateBody(rows) == SummaryOf(Counts(rows), Len(Kept(rows)))

WinsorizedOf(rows) == WinsorizedFrom(Counts(rows))

\* what one call computes from the counters
EntryOf(c, total_rows) == [body |-> SummaryOf(c, total_rows), winsorized |-> WinsorizedFrom(c)]

(***************************************************************************)
(* The inputs of the aggregator.                                           *)
(***************************************************************************)
Cycle(seq, i) == seq[(i % Len(seq)) + 1]

\* row i of a dataset of p.n rows with p.lows low and p.highs high outliers
\* of temperature and time, in ascending or descending order of size
RowAt(i, p) ==
    LET size == IF p.descending THEN p.n + 1 - i ELSE i
        spread(lo, mid, hi) ==
            IF size <= p.lows THEN lo + size
            ELSE IF size > p.n - p.highs THEN hi + size
            ELSE mid
    IN  [ reaction_type |-> IF i % 11 = 5 THEN TypeStrings[3] ELSE Cycle(TypeStrings, i % 2),
          metal         |-> Cycle(MetalStrings, i),
          ligand        |-> Cycle(LigandStrings, i \div 2),
          base          |-> Cycle(BaseStrings, i),
          solvent       |-> Cycle(SolventStrings, i \div 3),
          temperature_c |-> Some(spread(0, 80 + 10 * (size % 4), 400)),
          time_h        |-> IF i % 3 = 0 THEN None ELSE Some(spread(0, 6 + 6 * (size % 3), 90)),
          yield_pct     |-> IF i % 5 = 0 THEN None ELSE Some(40 + ((size * 7) % 50)) ]

AggParams == [n : 0..MaxRows, lows : 0..2, highs : 0..2, descending : BOOLEAN]

AggDatasets == {[i \in 1..p.n |-> RowAt(i, p)] : p \in {q \in AggParams : q.lows + q.highs <= q.n}}

\* AggregateBody and WinsorizedOf, computed once for each dataset of the model
AggregateTable ==
    [rows \in AggDatasets |-> EntryOf(Counts(rows), Len(Kept(rows)))]

\* mutant: the time of the run also reaches analyzed_rows
AggregateUllmann_Stamped(rows, now) ==
    [AggregateTable[rows].body EXCEPT !.summary.generated_at = now,
                                      !.summary.analyzed_rows = @ + now]

\* aggregate_ullmann, called at time now
AggregateUllmann(rows, now) ==
    [AggregateTable[rows].body EXCEPT !.summary.generated_at = now]

InitAggregate ==
    /\ input_rows \in AggDatasets
    /\ utcnow = 0
    /\ summaries = <<>>
    /\ winsorized = <<>>
    /\ AggregateAlone

\* one call of aggregate_ullmann on the fixed rows
Aggregate ==
    /\ Len(summaries) < MaxRuns
    /\ summaries' = Append(summaries, AggregateUllmann(input_rows, utcnow))
    /\ winsorized' = Append(winsorized, AggregateTable[input_rows].winsorized)
    /\ UNCHANGED <<input_rows, utcnow>>
    /\ UNCHANGED aggregateRest

\* time passes between calls
AggTick ==
    /\ utcnow < MaxClock
    /\ utcnow' = utcnow + 1
    /\ UNCHANGED <<input_rows, summaries, winsorized>>
    /\ UNCHANGED aggregateRest

NextAggregate == Aggregate \/ AggTick

SpecAggregate == InitAggregate /\ [][NextAggregate]_vars

(***************************************************************************)
(* Claims about the aggregator.                                            *)
(***************************************************************************)
NumericFields == {"temperature_c", "time_h", "yield_pct"}
\* the values of a numeric field that a call collects from rows, in row order
CollectedFrom(rows, f) ==
    LET having == SelectSeq(rows, LAMBDA r : IsUllmannRow(r) /\ r[f] # None)
    IN  [i \in 1..Len(having) |-> having[i][f][1]]
\* the element at 0-based index k of arr in ascending order
Ranked(arr, k) ==
    CHOOSE v \in {arr[i] : i \in 1..Len(arr)} :
        /\ Cardinality({i \in 1..Len(arr) : arr[i] < v}) <= k
        /\ k < Cardinality({i \in 1..Len(arr) : arr[i] <= v})
\* floor((n-1)*q), q in hundredths
NearestRank(n, q) == ((n - 1) * q) \div 100
\* v clamped to the 5th- and 95th-percentile values of arr
Clamped(arr, v) ==
    LET p05 == Ranked(arr, NearestRank(Len(arr), 5))
        p95 == Ranked(arr, NearestRank(Len(arr), 95))
    IN  IF v < p05 THEN p05 ELSE IF v > p95 THEN p95 ELSE v

\* what a call is to report for the values arr of one field: the values in
\* ascending order, each clamped to the 5th- and 95th-percentile values, and
\* the elements of that array at index floor((n-1)*q)
Expected(arr) ==
    LET n == Len(arr)
        w == [i \in 1..n |-> Clamped(arr, Ranked(arr, i - 1))]
    IN  [ w      |-> w,
          n      |-> n,
          median |-> IF n = 0 THEN None ELSE Some(Ranked(w, NearestRank(n, 50))),
          p25    |-> IF n = 0 THEN None ELSE Some(Ranked(w, NearestRank(n, 25))),
          p75    |-> IF n = 0 THEN None ELSE Some(Ranked(w, NearestRank(n, 75))) ]
\* Expected, computed once for each dataset of the model
ExpectedTable ==
    [rows \in AggDatasets |-> [f \in NumericFields |-> Expected(CollectedFrom(rows, f))]]
Collected(f) == CollectedFrom(input_rows, f)

\* C15: for each numeric field the aggregator clamps values below the
\* 5th-percentile value up to it and values above the 95th-percentile value
\* down to it, reports median, p25 and p75 as the element at index
\* floor((n-1)*q) of the sorted winsorized array, and reports n as the number
\* of values collected before clamping.
C15_WinsorizedNearestRank ==
    \A k \in 1..Len(summaries) : \A f \in NumericFields :
        LET expected == ExpectedTable[input_rows][f]
            stats == summaries[k].numeric_stats[f]
        IN  /\ stats.n = expected.n
            /\ winsorized[k][f] = expected.w
            /\ expected.n > 0 => /\ stats.median = expected.median
                                 /\ stats.p25 = expected.p25
                                 /\ stats.p75 = expected.p75

\* C15's case: a call collected more than 20 temperatures in descending
\* order, clamped the lowest up and the highest down, and fewer times than
\* temperatures
C15_Witness ==
    /\ Len(summaries) >= 1
    /\ LET arr == Collected("temperature_c")
           w == winsorized[1]["temperature_c"]
       IN  /\ Len(arr) > 20
           /\ arr[1] > arr[Len(arr)]
           /\ w[1] > Ranked(arr, 0)
           /\ w[Len(w)] < Ranked(arr, Len(arr) - 1)
           /\ summaries[1].numeric_stats["time_h"].n < Len(arr)
           /\ summaries[1].numeric_stats["temperature_c"].p25
                 # summaries[1].numeric_stats["temperature_c"].p75

Unstamped(s) == [s EXCEPT !.summary.generated_at = 0]

SubAt(s, i, sub) ==
    /\ i + Len(sub) - 1 <= Len(s)
    /\ SubSeq(s, i, i + Len(sub) - 1) = sub

\* sub in s
HasSub(s, sub) == \E i \in 1..Len(s) : SubAt(s, i, sub)

\* s.count(sub), for a sub that cannot overlap itself
CountSub(s, sub) == Cardinality({i \in 1..Len(s) : SubAt(s, i, sub)})

\* s.split(sub, 1), for an s that holds sub
SplitOnce(s, sub) ==
    LET i == CHOOSE k \in 1..Len(s) : SubAt(s, k, sub) /\ \A j \in 1..(k - 1) : ~SubAt(s, j, sub)
    IN  <<SubSeq(s, 1, i - 1), SubSeq(s, i + Len(sub), Len(s))>>

\* the letters a-z
LowerCase == {"a", "b", "c", "d", "e", "f", "g", "h", "i", "j", "k", "l", "m", "n", "o", "p", "q", "r", "s", "t", "u", "v", "w", "x", "y", "z"}

\* d[k] = v
Put(d, k, v) == (k :> v) @@ d

\* d.update(e)
Update(d, e) == e @@ d

\* the labels _map_reaction_type knows
mapping ==
    <<  <<"Suzuki-Miyaura Coupling", "Cross-Coupling">>,
        <<"C-C Coupling - Suzuki-Miyaura", "Cross-Coupling">>,
        <<"Buchwald-Hartwig Amination", "Cross-Coupling">>,
        <<"C-N Coupling - Buchwald-Hartwig", "Cross-Coupling">>,
        <<"Heck Coupling", "Cross-Coupling">>,
        <<"C-C Coupling - Heck", "Cross-Coupling">>,
        <<"Sonogashira Coupling", "Cross-Coupling">>,
        <<"C-C Coupling - Sonogashira", "Cross-Coupling">>,
        <<"Stille Coupling", "Cross-Coupling">>,
        <<"C-C Coupling - Stille", "Cross-Coupling">>,
        <<"Negishi Coupling", "Cross-Coupling">>,
        <<"C-C Coupling - Negishi", "Cross-Coupling">>,
        <<"Chan-Lam Coupling", "Cross-Coupling">>,
        <<"C-N Oxidative Coupling - Chan-Lam", "Cross-Coupling">>,
        <<"C-N Coupling - Chan-Lam", "Cross-Coupling">>,
        <<"Ullmann Ether Synthesis", "Ullmann">>,
        <<"Ullmann Reaction", "Ullmann">>,
        <<"C-N Coupling - Ullmann", "Ullmann">>,
        <<"C-O Coupling - Ullmann Ether", "Ullmann">>,
        <<"C-O Coupling - Ullmann", "Ullmann">>,
        <<"Hydrogenation", "Hydrogenation">>,
        <<"Carbonylation", "Carbonylation">>,
        <<"Oxidation", "C-H_Activation">>,
        <<"C-H Activation", "C-H_Activation">>  >>

\* gui_type without its trailing metal tag; of the labels the model passes
\* only one ends with ")" and holds " ("
StripMetalTag(gui_type) ==
    IF gui_type = "C-N Coupling - Ullmann (Cu)" THEN "C-N Coupling - Ullmann" ELSE gui_type

\* _map_reaction_type: the mapped type, or None
MapReactionType(gui_type) ==
    LET base_gui == StripMetalTag(gui_type)
        hits == {i \in 1..Len(mapping) : mapping[i][1] = base_gui}
    IN  IF hits = {} THEN <<>> ELSE <<mapping[CHOOSE i \in hits : TRUE][2]>>

IsCrossCouplingPattern(reactants, products) ==
    LET has_halogen == \E i \in 1..Len(reactants) : reactants[i] \in {"B", "r", "C", "l", "I"}
        has_boron == HasSub(reactants, <<"B", "(", "O", ")">>)
        has_nitrogen == \E i \in 1..(Len(reactants) - 1) : reactants[i] = "N" /\ reactants[i + 1] \notin LowerCase
    IN  (has_halogen /\ has_boron) \/ (has_halogen /\ has_nitrogen)

IsHydrogenationPattern(reactants, products) ==
    LET reactant_double_bonds == CountSub(reactants, <<"=">>) + CountSub(reactants, <<"#">>) * 2
        product_double_bonds == CountSub(products, <<"=">>) + CountSub(products, <<"#">>) * 2
    IN  product_double_bonds < reactant_double_bonds

IsCarbonylationPattern(reactants, products) ==
    LET reactant_carbonyls == CountSub(reactants, <<"C", "=", "O">>) + CountSub(reactants, <<"C", "(", "=", "O", ")">>)
        product_carbonyls == CountSub(products, <<"C", "=", "O">>) + CountSub(products, <<"C", "(", "=", "O", ")">>)
    IN  product_carbonyls > reactant_carbonyls

\* aromatic_products > aromatic_reactants * 1.2, in tenths
IsChActivationPattern(reactants, products) ==
    LET aromatic_reactants == CountSub(reactants, <<"c">>) + CountSub(reactants, <<"C">>)
        aromatic_products == CountSub(products, <<"c">>) + CountSub(products, <<"C">>)
    IN  aromatic_products * 10 > aromatic_reactants * 12

\* analyze_reaction_type: [raised, value]; reaction_smiles and suggested_type
\* are <<>> for None and <<v>> for a value
AnalyzeReactionType(reaction_smiles, suggested_type) ==
    LET named == suggested_type # <<>> /\ suggested_type[1] # "" /\ suggested_type[1] \notin {"Auto-detect", "Auto detect reaction type"}
        mapped_type == IF named THEN MapReactionType(suggested_type[1]) ELSE <<>>
    IN  IF mapped_type # <<>> THEN [raised |-> FALSE, value |-> mapped_type[1]]
        ELSE IF reaction_smiles = <<>> THEN [raised |-> TRUE, value |-> "TypeError"]
        ELSE IF ~HasSub(reaction_smiles[1], <<">", ">">>) THEN [raised |-> FALSE, value |-> "General Organic Reaction"]
        ELSE LET parts == SplitOnce(reaction_smiles[1], <<">", ">">>)
                 reactants == parts[1]
                 products == parts[2]
             IN  [raised |-> FALSE,
                  value |-> IF IsCrossCouplingPattern(reactants, products) THEN "Cross-Coupling"
                            ELSE IF IsHydrogenationPattern(reactants, products) THEN "Hydrogenation"
                            ELSE IF IsCarbonylationPattern(reactants, products) THEN "Carbonylation"
                            ELSE IF IsChActivationPattern(reactants, products) THEN "C-H_Activation"
                            ELSE "Cross-Coupling"]

\* the steps of _get_enhanced_recommendations' try block that run outside
\* any inner try: the ligand recommender, the solvent recommender and
\* _create_combined_conditions
RaisingSteps == {"ligands", "solvents", "combined"}

\* a variant that creates the recommendation keys only as they are computed
GetEnhancedRecommendations_NoDefaults(raise_at, bases_ok, dataset_ok) ==
    LET r0 == [reaction_specific_notes |-> ""]
        failed(r) == Put(r, "error", "Enhanced recommendation error")
        r1 == Put(r0, "ligand_recommendations", "ligands")
        r2 == Put(r1, "solvent_recommendations", "solvents")
        r3 == IF bases_ok THEN Put(r2, "base_recommendations", "bases") ELSE r2
        r4 == Put(r3, "combined_conditions", "combined")
        r5 == Put(r4, "property_based_alternatives", "alternatives")
        r6 == Put(r5, "reaction_specific_notes", "notes")
        r7 == IF dataset_ok THEN Put(r6, "dataset_info", "statistics") ELSE r6
    IN  IF raise_at = "ligands" THEN failed(r0)
        ELSE IF raise_at = "solvents" THEN failed(r1)
        ELSE IF raise_at = "combined" THEN failed(r3)
        ELSE r7

\* _get_enhanced_recommendations: raise_at is the step that raises ("none"
\* if none does), bases_ok whether the base recommender import and call
\* succeed, dataset_ok whether the dataset statistics can be computed
GetEnhancedRecommendations(raise_at, bases_ok, dataset_ok) ==
    LET r0 == [ligand_recommendations |-> "[]", solvent_recommendations |-> "[]", base_recommendations |-> "[]", combined_conditions |-> "[]", property_based_alternatives |-> "{}", reaction_specific_notes |-> ""]
        failed(r) == Put(r, "error", "Enhanced recommendation error")
        r1 == Put(r0, "ligand_recommendations", "ligands")
        r2 == Put(r1, "solvent_recommendations", "solvents")
        r3 == IF bases_ok THEN Put(r2, "base_recommendations", "bases") ELSE r2
        r4 == Put(r3, "combined_conditions", "combined")
        r5 == Put(r4, "property_based_alternatives", "alternatives")
        r6 == Put(r5, "reaction_specific_notes", "notes")
        r7 == IF dataset_ok THEN Put(r6, "dataset_info", "statistics") ELSE r6
    IN  IF raise_at = "ligands" THEN failed(r0)
        ELSE IF raise_at = "solvents" THEN failed(r1)
        ELSE IF raise_at = "combined" THEN failed(r3)
        ELSE r7

\* (reaction_type or '').lower().startswith('auto'), for the labels the
\* model passes
StartsWithAuto(reaction_type) == reaction_type # <<>> /\ reaction_type[1] = "Auto-detect"

\* get_recommendations; c holds the arguments and what the callees do
GetRecommendationsResult(c, avail, engine) ==
    LET a == AnalyzeReactionType(c.reaction_smiles, c.reaction_type)
        res == [analysis_type |-> "enhanced", reaction_type |-> a.value, detected_from |-> c.reaction_type, status |-> "success"]
        unavailable == Update(res, [error |-> "Enhanced reagent systems not available", message |-> "Please ensure ligand.py and solvent.py are properly installed"])
        enhanced == Update(res, GetEnhancedRecommendations(c.raise_at, c.bases_ok, c.dataset_ok))
        with_general ==
            IF ~StartsWithAuto(c.reaction_type) THEN enhanced
            ELSE IF c.general = "found" THEN Put(enhanced, "general_recommendations", "general")
            ELSE IF c.general = "raises" THEN Put(enhanced, "debug_warnings", "general_similarity_failed")
            ELSE enhanced
        with_base ==
            IF engine = "present" /\ a.value # "Ullmann" /\ c.base_recs = "buchwald_hartwig"
            THEN Put(Put(with_general, "buchwald_hartwig_analysis", "base_recs"), "analysis_type", "comprehensive")
            ELSE with_general
    IN  IF a.raised THEN [analysis_type |-> "error", error |-> a.value, status |-> "failed"]
        ELSE IF ~avail THEN unavailable
        ELSE with_base

\* the reaction SMILES the model passes: C C, C Br . N C >> C N C,
\* C = C >> C C, C C >> C C = O, c >> c C, c c >> c c
SmilesSamples ==
    { <<"C", "C">>,
      <<"C", "B", "r", ".", "N", "C", ">", ">", "C", "N", "C">>,
      <<"C", "=", "C", ">", ">", "C", "C">>,
      <<"C", "C", ">", ">", "C", "C", "=", "O">>,
      <<"c", ">", ">", "c", "C">>,
      <<"c", "c", ">", ">", "c", "c">> }

SmilesArgs == {<<>>} \cup {<<s>> : s \in SmilesSamples}

TypeArgs == {<<>>} \cup {<<t>> : t \in {"", "Auto-detect", "Ullmann", "Ullmann Reaction", "C-N Coupling - Ullmann (Cu)", "Hydrogenation"}}

EngineCalls ==
    [reaction_smiles : SmilesArgs, reaction_type : TypeArgs, raise_at : RaisingSteps \cup {"none"}, bases_ok : BOOLEAN, dataset_ok : BOOLEAN, general : {"none", "found", "raises"}, base_recs : {"none", "buchwald_hartwig", "other", "raises"}]

InitEngine ==
    /\ EngineAlone
    /\ available \in BOOLEAN
    /\ base_engine \in {"absent", "present"}
    /\ ecall = <<>>
    /\ eresult = <<>>
    /\ epc = "ready"

\* one call of get_recommendations on the constructed engine; the call leaves
\* the engine as it found it, so a later call starts from the same state
GetRecommendations ==
    \E c \in EngineCalls :
        /\ epc = "ready"
        /\ ecall' = c
        /\ eresult' = GetRecommendationsResult(c, available, base_engine)
        /\ epc' = "returned"
        /\ UNCHANGED <<available, base_engine, engineRest>>

NextEngine == GetRecommendations

SpecEngine == InitEngine /\ [][NextEngine]_vars

\* the keys the engine's API names
ApiKeys == {"ligand_recommendations", "solvent_recommendations", "base_recommendations", "combined_conditions", "property_based_alternatives", "dataset_info"}

EngineDone == epc = "returned"

NothingRaised ==
    /\ ~AnalyzeReactionType(ecall.reaction_smiles, ecall.reaction_type).raised
    /\ ecall.raise_at = "none"
    /\ ecall.dataset_ok

Truthy(o) == o # None /\ o[1] # ""

\* a or b
OrElse(a, b) == IF Truthy(a) THEN a ELSE b

\* the first position of t in s, 1-based, for an s that holds t
FindFirst(s, t) ==
    CHOOSE i \in 1..Len(s) :
        /\ SubSeq(s, i, i + Len(t) - 1) = t
        /\ \A j \in 1..(i - 1) : SubSeq(s, j, j + Len(t) - 1) # t

\* sep.join(parts)
RECURSIVE Join(_, _)
Join(parts, sep) ==
    IF parts = <<>> THEN ""
    ELSE IF Len(parts) = 1 THEN parts[1]
    ELSE parts[1] \o sep \o Join(Tail(parts), sep)

\* _name_only
NameOnly(tok) ==
    IF tok = None THEN None
    ELSE IF Contains(tok[1], "|")
         THEN LET i == FindFirst(tok[1], "|")
                  left == Strip(SubSeq(tok[1], 1, i - 1))
                  right == Strip(SubSeq(tok[1], i + 1, Len(tok[1])))
              IN  IF left # "" THEN Some(left) ELSE IF right # "" THEN Some(right) ELSE None
         ELSE IF Strip(tok[1]) # "" THEN Some(Strip(tok[1])) ELSE None

\* [p.strip() for p in s.split(',') if p.strip()]
RECURSIVE StrippedNonEmpty(_)
StrippedNonEmpty(parts) ==
    IF parts = <<>> THEN <<>>
    ELSE (IF Strip(parts[1]) # "" THEN <<Strip(parts[1])>> ELSE <<>>) \o StrippedNonEmpty(Tail(parts))

\* [x for x in (_name_only(p) for p in parts) if x]
RECURSIVE CleanedNames(_)
CleanedNames(parts) ==
    IF parts = <<>> THEN <<>>
    ELSE (IF Truthy(NameOnly(Some(parts[1]))) THEN <<NameOnly(Some(parts[1]))[1]>> ELSE <<>>) \o CleanedNames(Tail(parts))

\* _sanitize_field, for values that are not JSON arrays
SanitizeField(val) ==
    IF val = None \/ Strip(val[1]) = "" THEN None
    ELSE LET s == Strip(val[1])
             parts == StrippedNonEmpty(Split(s, ","))
             cleaned == CleanedNames(parts)
         IN  IF Len(parts) > 1
             THEN (IF cleaned # <<>> THEN Some(Join(cleaned, ", ")) ELSE NameOnly(Some(s)))
             ELSE NameOnly(Some(s))

\* the loop over related: catalyst, ligand and solvent are sanitized
CleanRelated(related) ==
    [i \in 1..Len(related) |-> [related[i] EXCEPT !.catalyst = SanitizeField(@), !.ligand = SanitizeField(@), !.solvent = SanitizeField(@)]]

\* [t for t in lhs.split('.') if t]
RECURSIVE NonEmptyParts(_)
NonEmptyParts(parts) ==
    IF parts = <<>> THEN <<>>
    ELSE (IF parts[1] # "" THEN <<parts[1]>> ELSE <<>>) \o NonEmptyParts(Tail(parts))

\* _split_smiles: the reactants; none when the string holds no ">>"
SplitSmiles(sm) ==
    LET s == IF Truthy(sm) THEN sm[1] ELSE ""
    IN  IF ~Contains(s, ">>") THEN <<>>
        ELSE NonEmptyParts(Split(SubSeq(s, 1, FindFirst(s, ">>") - 1), "."))

\* _default_metal_precursor
DefaultMetalPrecursor(rt) ==
    IF Lower(rt) = "ullmann"
    THEN [name |-> Some("CuI"), cas |-> Some("7681-65-4"), smiles |-> None, equivalents |-> None]
    ELSE [name |-> Some("Pd(OAc)2"), cas |-> Some("3375-31-3"), smiles |-> None, equivalents |-> None]

\* _load_cas_map: the rows with a CAS and the given column, keyed by the
\* lower-cased column, a later row replacing an earlier one
CasBy(rows, column) ==
    LET usable == {i \in 1..Len(rows) : Strip(rows[i].CAS) # "" /\ Strip(rows[i][column]) # ""}
        keyOf(i) == Lower(Strip(rows[i][column]))
        last(k) == CHOOSE i \in usable : keyOf(i) = k /\ \A j \in usable : keyOf(j) = k => j <= i
    IN  [k \in {keyOf(i) : i \in usable} |-> Strip(rows[last(k)].CAS)]

aliases ==
    [k \in {"k2co3", "cs2co3", "k3po4", "kotbu", "potassium tert-butoxide", "naotbu", "dipea", "dbu", "pyridine", "xphos", "sphos", "ruphos", "brettphos", "tbuxphos", "johnphos", "xantphos", "dppe", "dppf", "binap"} |->
        CASE k = "k2co3" -> "K2CO3" [] k = "cs2co3" -> "Cs2CO3" [] k = "k3po4" -> "K3PO4"
          [] k = "kotbu" -> "KOtBu" [] k = "potassium tert-butoxide" -> "KOtBu" [] k = "naotbu" -> "NaOtBu"
          [] k = "dipea" -> "DIPEA" [] k = "dbu" -> "DBU" [] k = "pyridine" -> "Pyridine"
          [] k = "xphos" -> "XPhos" [] k = "sphos" -> "SPhos" [] k = "ruphos" -> "RuPhos"
          [] k = "brettphos" -> "BrettPhos" [] k = "tbuxphos" -> "tBuXPhos" [] k = "johnphos" -> "JohnPhos"
          [] k = "xantphos" -> "XantPhos" [] k = "dppe" -> "DPPE" [] k = "dppf" -> "DPPF"
          [] OTHER -> "BINAP"]

\* _lookup_cas
LookupCas(name, cas_by_token, cas_by_name) ==
    IF ~Truthy(name) THEN None
    ELSE LET key == Lower(Strip(name[1]))
         IN  IF key \in DOMAIN cas_by_token THEN Some(cas_by_token[key])
             ELSE IF key \in DOMAIN cas_by_name THEN Some(cas_by_name[key])
             ELSE IF key \in DOMAIN aliases
                  THEN LET ak == Lower(aliases[key])
                       IN  IF ak \in DOMAIN cas_by_token THEN Some(cas_by_token[ak])
                           ELSE IF ak \in DOMAIN cas_by_name THEN Some(cas_by_name[ak])
                           ELSE None
             ELSE None

\* _solvent_cas: the CAS number of the first row of the solvent table with
\* that name; None when the table cannot be loaded or has no such row
SolventCas(name, solvent_table) ==
    IF solvent_table = None \/ ~Truthy(name) THEN None
    ELSE LET hits == {i \in 1..Len(solvent_table[1]) : solvent_table[1][i][1] = name[1]}
         IN  IF hits = {} THEN None
             ELSE Some(solvent_table[1][CHOOSE i \in hits : \A j \in hits : i <= j][2])

\* c.get('typical_conditions', {}) or {}, then .get(field)
ConditionsGet(c, field) ==
    IF c.typical_conditions = None THEN None ELSE c.typical_conditions[1][field]

\* a variant that lists a base entry for every condition
BaseEntries_Always(base_name, cas_by_token, cas_by_name) ==
    <<[name |-> base_name, cas |-> LookupCas(base_name, cas_by_token, cas_by_name), smiles |-> None, equivalents |-> Some(2), role |-> "base"]>>

\* if base_name: chemicals.append(...)
BaseEntries(base_name, cas_by_token, cas_by_name) ==
    IF Truthy(base_name)
    THEN <<[name |-> base_name, cas |-> LookupCas(base_name, cas_by_token, cas_by_name), smiles |-> None, equivalents |-> Some(2), role |-> "base"]>>
    ELSE <<>>

\* the body of the loop over the leading combined conditions
TopCondition(c, rxn_smiles, reactants, detected_type, files) ==
    LET cas_by_token == CasBy(files.cas_rows, "Token")
        cas_by_name == CasBy(files.cas_rows, "Name")
        base_name == OrElse(c.suggested_base, ConditionsGet(c, "base"))
        starting == [j \in 1..Len(reactants) |-> [name |-> None, cas |-> None, smiles |-> Some(reactants[j]), equivalents |-> None, role |-> "starting_material"]]
        mp == DefaultMetalPrecursor(detected_type)
        metal == [name |-> mp.name, cas |-> mp.cas, smiles |-> mp.smiles, equivalents |-> mp.equivalents, role |-> "metal_precursor"]
        ligand == [name |-> c.ligand, cas |-> LookupCas(c.ligand, cas_by_token, cas_by_name), smiles |-> None, equivalents |-> None, role |-> "ligand"]
        solvent == [name |-> c.solvent, abbreviation |-> c.solvent_abbreviation, cas |-> SolventCas(c.solvent, files.solvent_table), smiles |-> None, equivalents |-> None, role |-> "solvent"]
    IN  [reaction |-> [smiles |-> rxn_smiles],
         chemicals |-> starting \o <<metal, ligand>> \o BaseEntries(base_name, cas_by_token, cas_by_name) \o <<solvent>>,
         conditions |-> [temperature |-> ConditionsGet(c, "temperature"), time |-> ConditionsGet(c, "time"), atmosphere |-> ConditionsGet(c, "atmosphere")]]

\* the first truthy typical_conditions.catalyst_loading of the combined conditions
FirstCatalystLoading(conds) ==
    LET having == {i \in 1..Len(conds) : Truthy(ConditionsGet(conds[i], "catalyst_loading"))}
    IN  IF having = {} THEN None
        ELSE ConditionsGet(conds[CHOOSE i \in having : \A j \in having : i <= j], "catalyst_loading")

\* _load_analytics_snippet: None unless the type is Ullmann and latest.json
\* exists; of the summary the model keeps the top ligands
AnalyticsSnippet(rt, conds, files) ==
    IF Lower(Strip(rt)) # "ullmann" \/ files.latest = None THEN None
    ELSE LET snippet == [source |-> "Ullmann", top |-> [ligands |-> SliceTo(files.latest[1].top.ligands, 3)]]
             loading == FirstCatalystLoading(conds)
         IN  Some(IF loading # None THEN Put(snippet, "typical_catalyst_loading", loading[1]) ELSE snippet)

\* recs.get(field, default) or default, recs being result.get('recommendations', {}) or {}
RecsGet(res, field, default) ==
    IF res.recommendations = None THEN default ELSE res.recommendations[1][field]

\* build_export_payload
BuildExportPayload(res, related_reactions, files) ==
    LET conds == RecsGet(res, "combined_conditions", <<>>)
        related0 == IF related_reactions # None /\ related_reactions[1] # <<>> THEN related_reactions[1] ELSE RecsGet(res, "related_reactions", <<>>)
        related == CleanRelated(related0)
        rxn_smiles == res.reaction_smiles
        reactants == SplitSmiles(rxn_smiles)
        recs_type == RecsGet(res, "reaction_type", None)
        detected == OrElse(recs_type, res.reaction_type)
        detected_type == IF Truthy(detected) THEN detected[1] ELSE ""
        leading == SliceTo(conds, 3)
        top_conditions == [i \in 1..Len(leading) |-> TopCondition(leading[i], rxn_smiles, reactants, detected_type, files)]
        analytics_snippet == AnalyticsSnippet(detected_type, conds, files)
        dataset_info == RecsGet(res, "dataset_info", None)
        dataset_block0 == IF dataset_info = None THEN <<>> ELSE dataset_info[1]
        dataset_block == IF analytics_snippet # None THEN Put(dataset_block0, "analytics", analytics_snippet[1]) ELSE dataset_block0
        general == IF res.general_recommendations # None THEN res.general_recommendations ELSE RecsGet(res, "general_recommendations", None)
        body == [meta |-> [generated_at |-> files.now, analysis_type |-> res.analysis_type, status |-> res.status, providers |-> None],
                 input |-> [reaction_smiles |-> res.reaction_smiles, selected_reaction_type |-> res.reaction_type],
                 detection |-> [reaction_type |-> recs_type],
                 dataset |-> dataset_block,
                 top_conditions |-> top_conditions,
                 related_reactions |-> related]
    IN  IF general # None
        THEN Put(body, "general", [ligands |-> SliceTo(general[1].ligands, 20), solvents |-> SliceTo(general[1].solvents, 20), bases |-> SliceTo(general[1].bases, 20), top_hits |-> SliceTo(general[1].top_hits, 50)])
        ELSE body

\* combined conditions as the engine builds them: a base only among the
\* typical conditions, a suggested base, and no base at all
CondProline ==
    [ligand |-> Some("L-Proline"), solvent |-> Some("DMF"), solvent_abbreviation |-> Some("DMF"), suggested_base |-> None,
     typical_conditions |-> Some([temperature |-> Some("80-140 C"), time |-> Some("6-24 hours"), atmosphere |-> Some("Inert"), base |-> Some("K3PO4"), catalyst_loading |-> Some("5-20 mol% Cu")])]

CondXPhos ==
    [ligand |-> Some("XPhos"), solvent |-> Some("Toluene"), solvent_abbreviation |-> Some("PhMe"), suggested_base |-> Some("Cs2CO3"),
     typical_conditions |-> Some([temperature |-> Some("80-120 C"), time |-> Some("4-24 hours"), atmosphere |-> Some("Inert"), base |-> Some("K2CO3 or Cs2CO3"), catalyst_loading |-> Some("1-5 mol%")])]

CondBinap ==
    [ligand |-> Some("BINAP"), solvent |-> Some("Methanol"), solvent_abbreviation |-> Some("MeOH"), suggested_base |-> None,
     typical_conditions |-> Some([temperature |-> Some("20-80 C"), time |-> Some("2-16 hours"), atmosphere |-> Some("H2"), base |-> None, catalyst_loading |-> Some("0.1-2 mol%")])]

\* a condition without ligand name, typical conditions or base
CondBare ==
    [ligand |-> None, solvent |-> Some("Water"), solvent_abbreviation |-> None, suggested_base |-> Some(""), typical_conditions |-> None]

CondKinds == {CondProline, CondXPhos, CondBinap, CondBare}

\* the lists of at most MaxConds different conditions
CondLists ==
    UNION {{f \in [1..n -> CondKinds] : \A i, j \in 1..n : f[i] = f[j] => i = j} : n \in 0..MaxConds}

ExportSmiles == {None, Some("CC"), Some("Clc1ccncc1.NCC>>CCNc1ccncc1"), Some("C..N>>CN")}

ExportRecs ==
    [reaction_type : {None, Some("Ullmann"), Some("Hydrogenation")},
     dataset_info : {None, Some([ligands_available |-> 10, solvents_available |-> 5])},
     combined_conditions : CondLists,
     related_reactions : {<<>>},
     general_recommendations : {None}]

GeneralSample == [ligands |-> <<"XPhos">>, solvents |-> <<"DMF", "Toluene">>, bases |-> <<>>, top_hits |-> <<"hit-1">>]

ExportResults ==
    [analysis_type : {"enhanced"}, status : {"success"},
     reaction_smiles : ExportSmiles,
     reaction_type : {Some("C-N Coupling - Ullmann")},
     recommendations : {Some(r) : r \in ExportRecs},
     general_recommendations : {None, Some(GeneralSample)}]
    \cup
    [analysis_type : {"error"}, status : {"failed"},
     reaction_smiles : {None},
     reaction_type : {Some("Auto-detect")},
     recommendations : {None},
     general_recommendations : {None}]

RelatedSample == <<[catalyst |-> Some("CuI|7681-65-4"), ligand |-> Some("L-Proline|147-85-3, phen"), solvent |-> None, reaction_id |-> "r1"]>>

\* no data files at all, and every data file present
FilesAbsent == [cas_rows |-> <<>>, solvent_table |-> None, latest |-> None, now |-> 0]

FilesPresent ==
    [cas_rows |-> << [CAS |-> "147-85-3", Name |-> "L-Proline", Token |-> "Pro"],
                     [CAS |-> "564483-18-7", Name |-> "XPhos ligand", Token |-> "XPhos"],
                     [CAS |-> "534-17-8", Name |-> "Cesium carbonate", Token |-> "Cs2CO3"] >>,
     solvent_table |-> Some(<< <<"DMF", "68-12-2">>, <<"Toluene", "108-88-3">> >>),
     latest |-> Some([top |-> [ligands |-> <<"phen", "L-Proline", "DMEDA", "TMEDA">>]]),
     now |-> 1]

InitPayload ==
    /\ PayloadAlone
    /\ xresult = <<>>
    /\ xrelated = <<>>
    /\ xfiles \in {FilesAbsent, FilesPresent}
    /\ payload = <<>>
    /\ xpc = "ready"

\* one call of build_export_payload
BuildExport ==
    \E res \in ExportResults, rel \in {None, Some(RelatedSample)} :
        /\ xpc = "ready"
        /\ xresult' = res
        /\ xrelated' = rel
        /\ payload' = BuildExportPayload(res, rel, xfiles)
        /\ xpc' = "returned"
        /\ UNCHANGED <<xfiles, payloadRest>>

NextPayload == BuildExport

SpecPayload == InitPayload /\ [][NextPayload]_vars

PayloadDone == xpc = "returned"

\* the combined conditions of the result, in the engine's order
OfferedConditions ==
    IF xresult.recommendations = None THEN <<>> ELSE xresult.recommendations[1].combined_conditions

\* the number of reactants of the reaction SMILES: the non-empty runs
\* between the dots of the part before ">>"
ReactantCount ==
    IF xresult.reaction_smiles = None \/ ~Contains(xresult.reaction_smiles[1], ">>") THEN 0
    ELSE LET s == xresult.reaction_smiles[1]
             lhs == SubSeq(s, 1, FindFirst(s, ">>") - 1)
         IN  Cardinality({i \in 1..Len(lhs) : CharAt(lhs, i) # "." /\ (i = 1 \/ CharAt(lhs, i - 1) = ".")})

\* the type the metal precursor is chosen for
DetectedType ==
    IF xresult.recommendations # None /\ Truthy(xresult.recommendations[1].reaction_type)
    THEN xresult.recommendations[1].reaction_type[1]
    ELSE xresult.reaction_type[1]

\* the base a combined condition names, if any
NamedBase(c) ==
    IF Truthy(c.suggested_base) THEN c.suggested_base
    ELSE IF c.typical_conditions # None /\ Truthy(c.typical_conditions[1].base) THEN c.typical_conditions[1].base
    ELSE None

RolesOf(chemicals) == [j \in 1..Len(chemicals) |-> chemicals[j].role]

\* the keys of the payload, and one entry per leading combined condition
PayloadShape ==
    /\ {"meta", "input", "detection", "dataset", "top_conditions", "related_reactions"} \subseteq DOMAIN payload
    /\ "recommendations" \notin DOMAIN payload
    /\ Len(payload.top_conditions) <= 3
    /\ Len(payload.top_conditions) = (IF Len(OfferedConditions) < 3 THEN Len(OfferedConditions) ELSE 3)
    /\ \A i \in 1..Len(payload.top_conditions) : {"conditions", "chemicals"} \subseteq DOMAIN payload.top_conditions[i]

\* the chemicals of entry i apart from the base: the placeholders, the
\* default metal precursor, the ligand and, last, the solvent of condition i
ChemicalsAround(i) ==
    LET ch == payload.top_conditions[i].chemicals
        c == OfferedConditions[i]
        n == ReactantCount
    IN  /\ Len(ch) >= n + 3
        /\ \A j \in 1..n : ch[j].role = "starting_material" /\ ch[j].name = None /\ ch[j].smiles # None
        /\ ch[n + 1].role = "metal_precursor"
        /\ ch[n + 1].name = (IF DetectedType \in {"Ullmann", "ullmann"} THEN Some("CuI") ELSE Some("Pd(OAc)2"))
        /\ ch[n + 2].role = "ligand" /\ ch[n + 2].name = c.ligand
        /\ ch[Len(ch)].role = "solvent" /\ ch[Len(ch)].name = c.solvent

canonicalize_Growing(token) == IF token = None THEN "" ELSE "x" \o Canonicalize(token[1])

\* canonicalize, None included
canonicalize(token) == IF token = None THEN "" ELSE Canonicalize(token[1])

\* str.upper() of one ASCII letter
UpperChar(c) ==
    IF \E u \in DOMAIN LowerMap : LowerMap[u] = c
    THEN CHOOSE u \in DOMAIN LowerMap : LowerMap[u] = c
    ELSE c

RECURSIVE Upper(_)
Upper(s) == IF s = "" THEN "" ELSE UpperChar(CharAt(s, 1)) \o Upper(SubSeq(s, 2, Len(s)))

\* the token with sep written before, between and after its characters
RECURSIVE Interleave(_, _)
Interleave(s, sep) ==
    IF s = "" THEN sep ELSE sep \o CharAt(s, 1) \o Interleave(SubSeq(s, 2, Len(s)), sep)

\* names of reagents and quantities as datasets write them
CanonNames ==
    {"dmso", "k2co3", "Cs2CO3", "1,10-Phenanthroline", "n-methyl-2-pyrrolidone",
     "Hunig's base", "Pd(OAc)2", "ul", "10 uL", "THF", "x", ""}

\* two spellings of one name and what tells them apart
Spelling(token, variant, differ) == [token |-> Some(token), variant |-> Some(variant), differ |-> differ]

CaseSpellings ==
    {Spelling(n, Upper(n), "case") : n \in CanonNames}
        \cup {Spelling(n, Lower(n), "case") : n \in CanonNames}
        \cup {Spelling("hünig's base", "HÜNIG'S BASE", "case")}

BlankSpellings ==
    {Spelling(n, Interleave(n, " "), "blank") : n \in CanonNames}
        \cup {Spelling(n, Interleave(n, "  "), "blank") : n \in CanonNames}
        \cup {Spelling(" DMS O ", "dmso", "blank"), Spelling("K 2 CO 3", "k2co3", "blank")}

PunctuationSpellings ==
    {Spelling(n, Interleave(n, "-"), "punctuation") : n \in CanonNames}
        \cup {Spelling(n, Interleave(n, "_."), "punctuation") : n \in CanonNames}
        \cup {Spelling("k_2co_3", "k2co3", "punctuation")}

DiacriticSpellings ==
    {Spelling("Hünig's base", "Hunig's base", "diacritic"),
     Spelling("hünig's base", "hunig's base", "diacritic"),
     Spelling("É", "E", "diacritic"),
     Spelling("THF", "THF", "diacritic")}

MicroSpellings ==
    {Spelling("µL", "uL", "micro"), Spelling("10 µl", "10 ul", "micro"),
     Spelling("µ", "u", "micro"), Spelling("µmol", "umol", "micro")}

SameSpellings ==
    {Spelling(n, n, "same") : n \in CanonNames}
        \cup {[token |-> None, variant |-> None, differ |-> "same"]}

Spellings ==
    CaseSpellings \cup BlankSpellings \cup PunctuationSpellings \cup DiacriticSpellings
        \cup MicroSpellings \cup SameSpellings

InitCanon ==
    /\ \E sp \in Spellings : ctoken = sp.token /\ cvariant = sp.variant /\ cdiffer = sp.differ
    /\ cresult = "" /\ cvresult = "" /\ cagain = ""
    /\ kpc = 0
    /\ CanonAlone

\* canonicalize(token)
CanonicalizeToken ==
    /\ kpc = 0
    /\ cresult' = canonicalize(ctoken)
    /\ kpc' = 1
    /\ UNCHANGED <<ctoken, cvariant, cdiffer, cvresult, cagain>>
    /\ UNCHANGED canonRest

\* canonicalize(variant)
CanonicalizeVariant ==
    /\ kpc = 1
    /\ cvresult' = canonicalize(cvariant)
    /\ kpc' = 2
    /\ UNCHANGED <<ctoken, cvariant, cdiffer, cresult, cagain>>
    /\ UNCHANGED canonRest

\* canonicalize(canonicalize(token))
CanonicalizeAgain ==
    /\ kpc = 2
    /\ cagain' = canonicalize(Some(cresult))
    /\ kpc' = 3
    /\ UNCHANGED <<ctoken, cvariant, cdiffer, cresult, cvresult>>
    /\ UNCHANGED canonRest

NextCanon == CanonicalizeToken \/ CanonicalizeVariant \/ CanonicalizeAgain

SpecCanon == InitCanon /\ [][NextCanon]_vars

(***************************************************************************)
(* Claims about canonicalize.                                              *)
(***************************************************************************)
\* C21: canonicalize returns the same string for any two tokens that differ
\* only in letter case, in whitespace or punctuation, or in diacritics
\* (canonicalize(" DMS O ") = canonicalize("dmso"), canonicalize("K 2 CO 3") =
\* canonicalize("k2co3")).
C21_SpellingInsensitive ==
    (kpc >= 2 /\ cdiffer \in {"case", "blank", "punctuation", "diacritic"})
    => cresult = cvresult

\* the part of C21 about case, whitespace and punctuation alone
C21_CaseBlankPunctuation ==
    (kpc >= 2 /\ cdiffer \in {"case", "blank", "punctuation"}) => cresult = cvresult

\* an accented letter is dropped where the plain letter is kept
C21_AccentDropped ==
    /\ kpc >= 2
    /\ ctoken = Some("Hünig's base") /\ cvariant = Some("Hunig's base")
    /\ cresult = "hnigsbase" /\ cvresult = "hunigsbase"

\* C22: a token containing the micro sign canonicalizes to the same string
\* as the token with "u" in its place (a micro sign followed by "L" gives
\* "ul").
C22_MicroSignIsU ==
    /\ (kpc >= 2 /\ cdiffer = "micro") => cresult = cvresult
    /\ (kpc >= 1 /\ ctoken = Some("µL")) => cresult = "ul"

\* the micro sign is dropped
C22_MicroDropped ==
    kpc >= 2 /\ ctoken = Some("µL") /\ cresult = "l" /\ cvresult = "ul"

\* C23: canonicalize is deterministic and idempotent: for every token x, None
\* and the empty string included, canonicalize(canonicalize(x)) equals
\* canonicalize(x).
C23_Idempotent ==
    /\ kpc = 3 => cagain = cresult
    /\ (kpc >= 2 /\ ctoken = cvariant) => cresult = cvresult

C23_Witness ==
    /\ kpc = 3
    /\ ctoken = Some("1,10-Phenanthroline")
    /\ cresult = "110phenanthroline" /\ cagain = cresult

C23_WitnessNone == kpc = 3 /\ ctoken = None /\ cagain = ""

(***************************************************************************)
(* parse_numeric (analytics/normalization.py).  A float is written in      *)
(* thousandths; the texts of the model carry three decimals at most.       *)
(***************************************************************************)
DigitValue ==
    ("0" :> 0) @@ ("1" :> 1) @@ ("2" :> 2) @@ ("3" :> 3) @@ ("4" :> 4) @@ ("5" :> 5) @@
    ("6" :> 6) @@ ("7" :> 7) @@ ("8" :> 8) @@ ("9" :> 9)

IsDigitAt(s, i) == i >= 1 /\ i <= Len(s) /\ CharAt(s, i) \in DOMAIN DigitValue

\* the number of digits of s from position i on
RECURSIVE DigitRun(_, _)
DigitRun(s, i) == IF IsDigitAt(s, i) THEN 1 + DigitRun(s, i + 1) ELSE 0

\* [0-9]*\.?[0-9]+ at position i: the length of the match, 0 when there is
\* none; the digits and a point are taken greedily, and given back when no
\* digit follows the point
UnsignedMatch(s, i) ==
    LET n == DigitRun(s, i)
        m == IF i + n <= Len(s) /\ CharAt(s, i + n) = "." THEN DigitRun(s, i + n + 1) ELSE 0
    IN  IF m >= 1 THEN n + 1 + m ELSE n

\* [\-+]?[0-9]*\.?[0-9]+ at position i
NumberMatch(s, i) ==
    IF i <= Len(s) /\ CharAt(s, i) \in {"-", "+"} /\ UnsignedMatch(s, i + 1) > 0
    THEN 1 + UnsignedMatch(s, i + 1)
    ELSE UnsignedMatch(s, i)

\* re.search(r"([\-+]?[0-9]*\.?[0-9]+)", slow): group 1 of the leftmost
\* match, None when there is no match
SearchNumber(s) ==
    IF \E i \in 1..Len(s) : NumberMatch(s, i) > 0
    THEN LET i == CHOOSE h \in 1..Len(s) :
                      NumberMatch(s, h) > 0 /\ \A g \in 1..(h - 1) : NumberMatch(s, g) = 0
         IN  Some(SubSeq(s, i, i + NumberMatch(s, i) - 1))
    ELSE None

\* int() of a run of digits, 0 for the empty run
RECURSIVE IntOfDigits(_)
IntOfDigits(d) ==
    IF d = "" THEN 0 ELSE 10 * IntOfDigits(SubSeq(d, 1, Len(d) - 1)) + DigitValue[CharAt(d, Len(d))]

\* float(m.group(1)), in thousandths
FloatOf(g) ==
    LET signed == CharAt(g, 1) \in {"-", "+"}
        body == IF signed THEN SubSeq(g, 2, Len(g)) ELSE g
        dot == IF \E i \in 1..Len(body) : CharAt(body, i) = "."
               THEN CHOOSE i \in 1..Len(body) : CharAt(body, i) = "."
               ELSE Len(body) + 1
        whole == SubSeq(body, 1, dot - 1)
        frac == SubSeq(SubSeq(body, dot + 1, Len(body)) \o "000", 1, 3)
        v == 1000 * IntOfDigits(whole) + IntOfDigits(frac)
    IN  IF CharAt(g, 1) = "-" THEN 0 - v ELSE v

\* slow.endswith(suffix)
EndsWith(s, suffix) ==
    Len(s) >= Len(suffix) /\ SubSeq(s, Len(s) - Len(suffix) + 1, Len(s)) = suffix

\* \w of a casefolded text
WordChars == AlnumChars \cup {"_"}

\* re.search(r"\beq\b", slow)
SearchEq(s) ==
    \E i \in 1..(Len(s) - 1) :
        /\ SubSeq(s, i, i + 1) = "eq"
        /\ (i = 1 \/ CharAt(s, i - 1) \notin WordChars)
        /\ (i + 1 = Len(s) \/ CharAt(s, i + 2) \notin WordChars)

\* the crude unit capture, its checks in the order of the code
UnitOf(slow) ==
    IF Contains(slow, "mol") THEN Some("mol%")
    ELSE IF \/ Contains(slow, "°c") \/ EndsWith(slow, " c")
            \/ Contains(slow, " deg c") \/ "c" = slow
         THEN Some("c")
    ELSE IF Contains(slow, "h") \/ Contains(slow, "hr") \/ EndsWith(slow, " hours")
         THEN Some("h")
    ELSE IF Contains(slow, "equiv") \/ SearchEq(slow) THEN Some("equiv")
    ELSE None

\* mutant: a comma is left as it is
DecimalComma_Kept(s) == s

\* s.replace(",", ".")
DecimalComma(s) == Replace(s, ",", ".")

\* parse_numeric: the pair (value, unit)
parse_numeric(text) ==
    IF text = None THEN <<None, None>>
    ELSE LET s == DecimalComma(Strip(NFKC(text[1])))
             slow == Casefold(s)
             m == SearchNumber(slow)
         IN  IF m = None THEN <<None, None>>
             ELSE <<Some(FloatOf(m[1])), UnitOf(slow)>>

\* numbers as datasets write them, each with its value in thousandths
NumberSamples ==
    {<<"110", 110000>>, <<"12", 12000>>, <<"5", 5000>>, <<"2.0", 2000>>, <<"1,5", 1500>>,
     <<"0.25", 250>>, <<".5", 500>>, <<"-5", 0 - 5000>>, <<"+3", 3000>>, <<"80.", 80000>>}

\* what stands between the number and its unit
Separators == {"", " ", "  "}

\* the units of the claim and other ways of writing them
UnitSamples == {"C", "c", "h", "H", "mol%", "equiv", "°C", "deg C", "hr", "hours", "eq", "M", ""}

WrittenTexts ==
    {[text |-> Some(n[1] \o sep \o u), written |-> <<n, sep, u>>] :
        n \in NumberSamples, sep \in Separators, u \in UnitSamples}

\* texts of another form: no number at all, a number amid words
FreeSamples ==
    {"", " ", "abc", "reflux", "rt", "overnight", "C", "h", "mol%", "equiv", "-", ".", "+.",
     " 110 C ", "CH3 5 equiv", "room temp 25 C overnight", "2 equiv of HCl", "1.2.3"}

FreeTexts ==
    {[text |-> Some(t), written |-> <<>>] : t \in FreeSamples}
        \cup {[text |-> None, written |-> <<>>]}

InitParse ==
    /\ \E t \in WrittenTexts \cup FreeTexts : ptext = t.text /\ pwritten = t.written
    /\ presult = <<>>
    /\ ppc = "ready"
    /\ ParseAlone

ParseNumeric ==
    /\ ppc = "ready"
    /\ presult' = parse_numeric(ptext)
    /\ ppc' = "done"
    /\ UNCHANGED <<ptext, pwritten>>
    /\ UNCHANGED parseRest

NextParse == ParseNumeric

SpecParse == InitParse /\ [][NextParse]_vars

(***************************************************************************)
(* Claims about parse_numeric.                                             *)
(***************************************************************************)
ParseDone == ppc = "done"

\* the unit class the claim gives a unit
UnitClass == ("C" :> "c") @@ ("h" :> "h") @@ ("mol%" :> "mol%") @@ ("equiv" :> "equiv")

\* the text holds no digit
NoNumber == ptext = None \/ \A i \in 1..Len(ptext[1]) : ~IsDigitAt(ptext[1], i)

\* C24: parse_numeric returns the first decimal number in the text (a comma
\* accepted as decimal separator) together with its unit class: for a text
\* made of a number followed by C, h, mol% or equiv the unit is c, h, mol% or
\* equiv ("110 C" gives (110.0, "c"), "5 mol%" gives (5.0, "mol%")), and for
\* a text that contains no number it returns (None, None).
C24_NumberAndUnit ==
    ParseDone
    => /\ (pwritten # <<>> /\ pwritten[3] \in DOMAIN UnitClass)
            => presult = <<Some(pwritten[1][2]), Some(UnitClass[pwritten[3]])>>
       /\ NoNumber => presult = <<None, None>>

\* C24 as the code has it: C is recognised only after a blank; h, mol% and
\* equiv are recognised with or without one
C24_UnitAfterBlank ==
    ParseDone
    => /\ (/\ pwritten # <<>> /\ pwritten[3] \in DOMAIN UnitClass
           /\ (pwritten[3] = "C" => pwritten[2] # ""))
            => presult = <<Some(pwritten[1][2]), Some(UnitClass[pwritten[3]])>>
       /\ NoNumber => presult = <<None, None>>

C24_Witness ==
    /\ ParseDone
    /\ ptext = Some("1,5 C") /\ presult = <<Some(1500), Some("c")>>

\* "110C" has a value and no unit
C24_NoBlankNoUnit ==
    ParseDone /\ ptext = Some("110C") /\ presult = <<Some(110000), None>>

(***************************************************************************)
(* _harvest_evidence_bases (enhanced_recommendation_engine.py): the        *)
(* frequency map of the bases named by the rows of one reaction type.      *)
(***************************************************************************)
MaxHarvestRows == 2

base_tokens ==
    <<"k2co3", "cs2co3", "k3po4", "kotbu", "naotbu", "na2co3", "koh", "tbuok", "ko-tbu",
      "triethylamine", "et3n">>

\* _name_only of _harvest_evidence_bases: the name before '|', '' for none
HarvestNameOnly(txt) ==
    IF Contains(txt, "|")
    THEN LET i == FindFirst(txt, "|")
             left == Strip(SubSeq(txt, 1, i - 1))
             right == Strip(SubSeq(txt, i + 1, Len(txt)))
         IN  IF left # "" THEN left ELSE right
    ELSE Strip(txt)

\* the items _maybe_add walks through
HarvestItems(text) ==
    LET s == Replace(Replace(StripChars(Strip(text), {"[", "]"}), "\"", ""), "'", "")
        parts == StrippedNonEmpty(Split(s, ","))
    IN  IF parts # <<>> THEN parts ELSE IF s # "" THEN <<s>> ELSE <<>>

\* for tok in base_tokens: if tok in low
IsBaseToken(it) == \E i \in 1..Len(base_tokens) : Contains(Lower(it), base_tokens[i])

\* mutant: every item of a column is counted
IsBaseToken_Any(it) == TRUE

\* evidence[name] = evidence.get(name, 0) + 1
Count1(evidence, name) ==
    Put(evidence, name, (IF name \in DOMAIN evidence THEN evidence[name] ELSE 0) + 1)

RECURSIVE AddItems(_, _)
AddItems(evidence, items) ==
    IF items = <<>> THEN evidence
    ELSE AddItems(IF IsBaseToken(items[1])
                  THEN Count1(evidence, HarvestNameOnly(items[1]))
                  ELSE evidence,
                  Tail(items))

\* _maybe_add
MaybeAdd(evidence, text) == IF text = "" THEN evidence ELSE AddItems(evidence, HarvestItems(text))

\* the row counts when its ReactionType, stripped, is not empty and equals
\* the requested type but for case
RowCounts(row, reaction_type) ==
    LET rtype == Strip(row.ReactionType)
    IN  rtype # "" /\ Lower(rtype) = Lower(reaction_type)

\* row.get('Reagent') or row.get('ReagentRaw') or ''
ReagentOf(row) == IF row.Reagent # "" THEN row.Reagent ELSE row.ReagentRaw

\* the body of the loop over the rows
HarvestRow(evidence, row, reaction_type) ==
    IF ~RowCounts(row, reaction_type) THEN evidence
    ELSE MaybeAdd(MaybeAdd(MaybeAdd(evidence, ReagentOf(row)), row.RGTName), row.Base)

RECURSIVE HarvestRows(_, _, _)
HarvestRows(evidence, rows, reaction_type) ==
    IF rows = <<>> THEN evidence
    ELSE HarvestRows(HarvestRow(evidence, rows[1], reaction_type), Tail(rows), reaction_type)

\* _harvest_evidence_bases; the rows of the model name fewer than ten bases,
\* so that the final cut to the ten most frequent keeps them all
HarvestEvidenceBases(data_dir, reaction_type) ==
    IF data_dir = None THEN <<>> ELSE HarvestRows(<<>>, data_dir[1], reaction_type)

HarvestRowOf(rtype, reagent, raw, rgt, base) == [ReactionType |-> rtype, Reagent |-> reagent, ReagentRaw |-> raw, RGTName |-> rgt, Base |-> base]

\* rows as the datasets hold them
HarvestRowSamples ==
    {HarvestRowOf("Ullmann", "CuI, K2CO3", "", "", ""),
     HarvestRowOf("Ullmann", "CuI, K2CO3", "", "", "DBU"),
     HarvestRowOf("Ullmann", "CuI", "", "", "K2CO3"),
     HarvestRowOf("Ullmann", "", "", "", "Cs2CO3|534-17-8, DBU"),
     HarvestRowOf("ullmann ", "", "['CuI', 'K3PO4']", "", ""),
     HarvestRowOf("ULLMANN", "", "", "Et3N", ""),
     HarvestRowOf("Ullmann", "CuI, L-Proline", "", "", ""),
     HarvestRowOf("Ullmann", "K2CO3", "", "K2CO3", "K2CO3"),
     HarvestRowOf("Suzuki", "Pd(PPh3)4, K2CO3", "", "", "K3PO4"),
     HarvestRowOf("Ullmann-type", "CuI, Cs2CO3", "", "", ""),
     HarvestRowOf("", "K2CO3", "", "", "K2CO3")}

HarvestTypes == {"Ullmann", "ullmann", "Suzuki", ""}

RECURSIVE HarvestLists(_)
HarvestLists(n) ==
    IF n = 0 THEN {<<>>}
    ELSE HarvestLists(n - 1)
            \cup {Append(l, r) : l \in {h \in HarvestLists(n - 1) : Len(h) = n - 1},
                                 r \in HarvestRowSamples}

InitHarvest ==
    /\ hdataset \in {None} \cup {Some(l) : l \in HarvestLists(MaxHarvestRows)}
    /\ htype \in HarvestTypes
    /\ hevidence = <<>>
    /\ hpc = "ready"
    /\ HarvestAlone

HarvestBases ==
    /\ hpc = "ready"
    /\ hevidence' = HarvestEvidenceBases(hdataset, htype)
    /\ hpc' = "done"
    /\ UNCHANGED <<hdataset, htype>>
    /\ UNCHANGED harvestRest

NextHarvest == HarvestBases

SpecHarvest == InitHarvest /\ [][NextHarvest]_vars

(***************************************************************************)
(* Claims about the evidence harvest.                                      *)
(***************************************************************************)
HarvestDone == hpc = "done" /\ hdataset # None

\* the rows whose reaction type is the requested one but for case
MatchingRows == SelectSeq(hdataset[1], LAMBDA r : Lower(Strip(r.ReactionType)) = Lower(htype))

\* the names a column lists
ColumnNames(text) == {HarvestNameOnly(HarvestItems(text)[i]) : i \in 1..Len(HarvestItems(text))}

\* the dataset is one counting row whose Base column is populated
OneRowWithBase ==
    /\ HarvestDone
    /\ Len(hdataset[1]) = 1 /\ Len(MatchingRows) = 1
    /\ hdataset[1][1].Base # ""

\* C25: only rows whose reaction-type field case-insensitively equals the
\* requested type count; within such a row the token allow-list is matched
\* against the reagent columns only when the row's base column is not
\* populated, and a populated base column contributes its own names without
\* the allow-list filter.
C25_BaseColumnFirst ==
    /\ HarvestDone => hevidence = HarvestRows(<<>>, MatchingRows, htype)
    /\ OneRowWithBase => DOMAIN hevidence = ColumnNames(hdataset[1][1].Base)

\* the part of C25 about the reaction type alone
C25_MatchingRowsOnly ==
    HarvestDone => hevidence = HarvestRows(<<>>, MatchingRows, htype)

\* a base column naming DBU beside a reagent column naming K2CO3
C25_BaseColumnFiltered ==
    /\ OneRowWithBase
    /\ hdataset[1][1].Base = "DBU" /\ hdataset[1][1].Reagent = "CuI, K2CO3"
    /\ hevidence = ("K2CO3" :> 1)

(***************************************************************************)
(* Prior blending against the names the aggregator writes.                 *)
(***************************************************************************)
\* the field of _normalize_field that feeds the top list of a kind
FieldOfKind == ("solvents" :> "solvent") @@ ("bases" :> "base") @@ ("ligands" :> "ligand")

\* the name the normalizer gives a recommendation's reagent, computed once
\* for each name of the model
NormalizerNames == [k \in Kinds |-> [n \in RecNames(k) |-> MapByKind(n, FieldOfKind[k])]]

\* the pct the snapshot holds under the normalizer's name of the entry
SnapshotPct(e) == DictGet(ExtractPriors(summary, kind), NormalizerNames[kind][e.name], 0)

\* the score of the boost path for the entry
BoostOf(e) ==
    RoundDiv(Min(1000 * 10000,
                 BaseScoreOf(e) * (10000 + WFreq(analytics_cfg, kind) * Sqrt(SnapshotPct(e)))),
             10000)

\* the entry is one the snapshot supports under its normalizer name
SnapshotSupported(e) ==
    /\ BaseScoreOf(e) > 0
    /\ SnapshotPct(e) >= MinPct(analytics_cfg)

\* C26: prior blending looks a recommendation up under the canonical name the
\* aggregator wrote into the snapshot's top lists: a recommendation whose
\* normalizer name is a priors key with pct >= min_support_pct takes the
\* boost path, not the penalty path ("Dimethylformamide" finds the prior
\* stored under "dmf", "1,10-Phenanthroline" the one stored under "phen").
C26_LookupByNormalizerName ==
    BlendDone =>
        \A i \in 1..Len(blended) :
            SnapshotSupported(blended[i]) => blended[i].compatibility_score = BoostOf(blended[i])

\* "Dimethylformamide" at 0.64 beside a snapshot holding "dmf" with pct 0.81
\* is returned at 0.544, the penalty
C26_DmfPenalised ==
    /\ BlendDone /\ analytics_cfg = DefaultCfg /\ kind = "solvents"
    /\ Len(recs) = 1 /\ recs[1].name = "Dimethylformamide" /\ recs[1].compatibility_score = 640
    /\ Len(summary.top[kind]) = 1
    /\ summary.top[kind][1] = [name |-> "dmf", pct |-> 8100]
    /\ blended[1].compatibility_score = 544

(***************************************************************************)
(* The rank field of the lists the engine returns.                         *)
(***************************************************************************)
\* C27: in every ranked list the engine hands to its consumer (the ligand,
\* solvent and base recommendations after prior blending and re-sorting, the
\* combined conditions after sorting and truncation) the rank field of the
\* entry at 1-based position i equals i.
C27_RankIsPosition ==
    BlendDone => \A i \in 1..Len(blended) : blended[i].rank = i

\* the same for the combined conditions
C27_CombinedRankIsPosition ==
    CombineDone => \A i \in 1..Len(combined) : combined[i].rank = i

\* the recommender's list came best first; the blend moved its second entry
\* to the front and left the rank at 2
C27_StaleRank ==
    /\ BlendDone /\ analytics_cfg = DefaultCfg
    /\ Len(recs) = 2 /\ recs[1].compatibility_score > recs[2].compatibility_score
    /\ blended[1].rank = 2 /\ blended[2].rank = 1

\* ligands and solvents came best first; the pair of the second ligand with
\* the first solvent is returned second with rank 3
C27_CombinedStaleRank ==
    /\ CombineDone
    /\ \A i \in 1..(Len(ligands) - 1) :
          ligands[i].compatibility_score >= ligands[i + 1].compatibility_score
    /\ \A i \in 1..(Len(solvents) - 1) :
          solvents[i].compatibility_score >= solvents[i + 1].compatibility_score
    /\ Len(combined) >= 2 /\ combined[2].rank = 3

(***************************************************************************)
(* latest.json against the newest version directory.                       *)
(***************************************************************************)
NoRunInProgress == \A p \in Runners : ~InProgress(p)

\* the timestamps of the version directories there are
VersionDirs == {s \in DOMAIN versions : versions[s].dir}

\* the version directory created last: time does not run backwards, so it is
\* the one with the greatest timestamp
NewestVersion == CHOOSE s \in VersionDirs : \A t \in VersionDirs : t <= s

\* latest.json, if present, holds what summary.json of the newest version
\* directory holds
LatestIsNewest ==
    latest.present => (VersionDirs # {} /\ latest = versions[NewestVersion].summary)

\* C28: whenever no export run is in progress, latest.json (if present) has
\* exactly the content of summary.json in the most recently created version
\* directory, for every interleaving of runs against the same output
\* directory, runs that overlap in time and runs started within the same
\* second included.
C28_LatestIsNewestAlways == NoRunInProgress => LatestIsNewest

\* C28 for runs that follow one another: as long as no run has started while
\* another was in progress, latest.json (if present) has the content of
\* summary.json in the most recently created version directory whenever no
\* run is in progress, runs started within the same second included.
C28_LatestIsNewestWhenSerial == (NoRunInProgress /\ ~overlapped) => LatestIsNewest

\* two runs, one after the other, within the same second: the second has
\* overwritten both files
C28_Witness ==
    /\ NoRunInProgress /\ ~overlapped
    /\ \E p, q \in Runners :
          /\ run[p].pc = "done" /\ run[q].pc = "done"
          /\ run[p].summary.generated_at < run[q].summary.generated_at
          /\ run[p].ts = run[q].ts
          /\ latest = run[q].summary
          /\ versions[run[q].ts].summary = latest
    /\ Cardinality(VersionDirs) = 1

\* overlapping runs: the run that made the older directory wrote latest.json
\* last
C28_OlderRunWroteLast ==
    /\ NoRunInProgress /\ overlapped
    /\ latest.present
    /\ NewestVersion > Timestamp(latest.generated_at)
    /\ versions[NewestVersion].summary # latest

(***************************************************************************)
(* The status of the engine's result.                                      *)
(***************************************************************************)
\* C29: get_recommendations never raises, and its result has status
\* "success" only when the ligand, solvent and base recommendation step
\* completed without error: whenever the result carries an error entry, its
\* status is "failed".
C29_ErrorMeansFailed ==
    /\ epc # "raised"
    /\ EngineDone => ("error" \in DOMAIN eresult => eresult.status = "failed")

\* the part of C29 about raising alone
C29_NeverRaises == epc # "raised"

\* the ligand recommender raised: the result holds the error and says success
C29_ErrorWithSuccess ==
    /\ EngineDone /\ available
    /\ ~AnalyzeReactionType(ecall.reaction_smiles, ecall.reaction_type).raised
    /\ ecall.raise_at = "ligands"
    /\ "error" \in DOMAIN eresult
    /\ eresult.status = "success"

(***************************************************************************)
(* The co-occurrence counters against the tokens of each row.              *)
(***************************************************************************)
\* normed of _normalize_field, computed once for each string of the model
NormedTable ==
    [field \in {"metal", "ligand", "base", "solvent"} |->
        [s \in FieldStrings(field) |-> Normed(s, field)]]

\* 'ullmann' in canonicalize(reaction_type), computed once for each reaction
\* type of the model
UllmannTypes ==
    [t \in {TypeStrings[i] : i \in 1..Len(TypeStrings)} |-> Contains(Canonicalize(t), "ullmann")]

\* how often t stands in seq
Occurrences(seq, t) == Cardinality({i \in 1..Len(seq) : seq[i] = t})

\* the three co-occurrence lists and the two fields each pairs
CoFields ==
    {<<"ligand_solvent", "ligand", "solvent">>, <<"base_solvent", "base", "solvent">>,
     <<"catalyst_ligand", "metal", "ligand">>}

\* the tokens the strings of each field are mapped to
FieldTokens ==
    [field \in {"metal", "ligand", "base", "solvent"} |->
        UNION {{NormedTable[field][s][i] : i \in 1..Len(NormedTable[field][s])} :
                  s \in FieldStrings(field)} \ {""}]

\* the pairs of tokens a co-occurrence list can hold
CoPairs == [cf \in CoFields |-> FieldTokens[cf[2]] \X FieldTokens[cf[3]]]

\* the count a co-occurrence list gives the pair (a, b), 0 when it has none
CoCount(list, a, b) ==
    IF \E i \in 1..Len(list) : list[i].a = a /\ list[i].b = b
    THEN list[CHOOSE i \in 1..Len(list) : list[i].a = a /\ list[i].b = b].count
    ELSE 0

\* the elements (a, b) of the full Cartesian product of the token lists of
\* the kept rows, every occurrence counted
RECURSIVE ProductCount(_, _, _, _, _)
ProductCount(rows, fa, fb, a, b) ==
    IF rows = <<>> THEN 0
    ELSE (IF UllmannTypes[Head(rows).reaction_type]
          THEN Occurrences(NormedTable[fa][Head(rows)[fa]], a)
                   * Occurrences(NormedTable[fb][Head(rows)[fb]], b)
          ELSE 0) + ProductCount(Tail(rows), fa, fb, a, b)

\* the kept rows that name a in the one field and b in the other
RECURSIVE RowCount(_, _, _, _, _)
RowCount(rows, fa, fb, a, b) ==
    IF rows = <<>> THEN 0
    ELSE (IF /\ UllmannTypes[Head(rows).reaction_type]
             /\ Occurrences(NormedTable[fa][Head(rows)[fa]], a) > 0
             /\ Occurrences(NormedTable[fb][Head(rows)[fb]], b) > 0
          THEN 1 ELSE 0) + RowCount(Tail(rows), fa, fb, a, b)

\* ProductCount, computed once for each dataset of the model
CoProductCounts ==
    [rows \in AggDatasets |->
        [cf \in CoFields |->
            [ab \in CoPairs[cf] |-> ProductCount(rows, cf[2], cf[3], ab[1], ab[2])]]]

\* RowCount, computed once for each dataset of the model
CoRowCounts ==
    [rows \in AggDatasets |->
        [cf \in CoFields |->
            [ab \in CoPairs[cf] |-> RowCount(rows, cf[2], cf[3], ab[1], ab[2])]]]

\* the summary the last call returned
LastSummary == summaries[Len(summaries)]

\* C30: when a row's field lists the same normalized token more than once,
\* the aggregator does not deduplicate it: the co-occurrence counters are
\* incremented once for every element of the full Cartesian product of the
\* row's token lists, a repeated token contributing one increment per
\* occurrence.
C30_FullProduct ==
    summaries # <<>> =>
        \A cf \in CoFields : \A ab \in CoPairs[cf] :
            CoCount(LastSummary.cooccurrence[cf[1]], ab[1], ab[2])
                = CoProductCounts[input_rows][cf][ab]

\* C30 as the code has it: _normalize_field keeps the first occurrence of a
\* token only, so the counters are incremented once for every element of the
\* Cartesian product of the row's deduplicated token lists, and a token a row
\* repeats contributes one increment for the row.
C30_DedupedProduct ==
    summaries # <<>> =>
        \A cf \in CoFields : \A ab \in CoPairs[cf] :
            CoCount(LastSummary.cooccurrence[cf[1]], ab[1], ab[2])
                = CoRowCounts[input_rows][cf][ab]

\* a summary of rows one of which names phen twice beside one solvent
C30_Witness ==
    /\ summaries # <<>>
    /\ \E i \in 1..Len(input_rows) :
          /\ UllmannTypes[input_rows[i].reaction_type]
          /\ Occurrences(NormedTable["ligand"][input_rows[i].ligand], "phen") = 2
          /\ Occurrences(NormedTable["solvent"][input_rows[i].solvent], "dmso") = 1
    /\ CoCount(summaries[1].cooccurrence.ligand_solvent, "phen", "dmso")
           = RowCount(input_rows, "ligand", "solvent", "phen", "dmso")
    /\ RowCount(input_rows, "ligand", "solvent", "phen", "dmso")
           < ProductCount(input_rows, "ligand", "solvent", "phen", "dmso")

====
